---- MODULE Spec2Model ----
(***************************************************************************)
(* The correction-resolution engine of vstu_schedule_corrections:          *)
(* corrections/models.py (Item, Correction) and corrections/views.py       *)
(* (apply_correction, get_approved_correction_for_subject).                *)
(*                                                                         *)
(* Scores are integers in hundredths: 70 is Decimal('0.7').  A stored      *)
(* score is a multiple of 10 (one decimal digit).  Timestamps are kept     *)
(* relative: the program only orders corrections by updated_at             *)
(* (Correction.Meta.ordering), so after every step the stored timestamps   *)
(* are renumbered to their ranks; the call record keeps the value a save   *)
(* wrote before the renumbering.                                           *)
(***************************************************************************)
EXTENDS Integers, Sequences, FiniteSets, TLC

\* ---- bounds of the model
MaxItems == 3
MaxTenth == 2
MaxHyps == 2
\* normalize_score is tried on -MaxExcess/100 .. 1 + MaxExcess/100.
MaxExcess == 30
\* Items of the store that the models' own methods are called on.
MaxModelItems == 2

\* ---- program constants
STATUS_PENDING == 0
STATUS_APPROVED == 1
STATUS_INVALID == 2

\* pk of an Item that was never saved (Item(...) without save()).
NoPk == 0
\* "no correction selected" in a call record.
NoCorr == 0
\* score = None (the column is null=True): a value no decimal score takes.
NullScore == 0 - 1000

ItemIds == 1..MaxItems
CorrIds == {1}
Statuses == {STATUS_PENDING, STATUS_APPROVED, STATUS_INVALID}
\* Scores a stored Item can carry in this model: 0.0, 0.1, ..., MaxTenth/10.
ScoreSet == {10 * t : t \in 0..MaxTenth}
\* Scores a caller can hand to Item.save: also values between the grid points.
RawScores == {5 * k : k \in 0..(2 * MaxTenth)}
\* Scores a caller assigns before Item.save or add_hypothesis: None, below
\* 0.0, two fractional digits (0.04, 0.05, 0.14), on the grid, above 1.0.
SaveScores == {NullScore, 0 - 10, 4, 5, 10, 14, 10 * MaxTenth, 110}
SubjectValues == {"Math", "Physics"}
ScopeIds == {0, 1}

VARIABLES
  items,        \* pk -> stored Item row
  corrections,  \* id -> stored Correction row (hypotheses: the M2M rows)
  last,         \* the record of the last call: arguments, observations, result
  first,        \* what the call before a repeated call returned and left behind
  calls,        \* the concurrent invocations of apply_correction: position and locals
  calc          \* a computation without store (normalize_score, matches_context):
                \* the arguments and the results

vars == <<items, corrections, last, first, calls, calc>>

\* ------------------------------------------------------------------------
\* Mutant: a whole step is added before the digits are cut off.
Quantize_NextStep(x) ==
  IF x >= 0 THEN ((x + 10) \div 10) * 10 ELSE 0 - (((0 - x) + 10) \div 10) * 10

\* ItemManager.normalize_score: quantize to one decimal digit, ROUND_HALF_UP
\* (ties away from zero), then clamp to [0.0, 1.0].
Quantize(x) ==
  IF x >= 0 THEN ((x + 5) \div 10) * 10 ELSE 0 - (((0 - x) + 5) \div 10) * 10

\* Mutant: ROUND_HALF_DOWN.
normalize_score_HalfDown(score) ==
  LET q == IF score >= 0 THEN ((score + 4) \div 10) * 10
           ELSE 0 - (((0 - score) + 4) \div 10) * 10
  IN IF q < 0 THEN 0 ELSE IF q > 100 THEN 100 ELSE q

normalize_score(score) ==
  LET q == Quantize(score)
  IN IF q < 0 THEN 0 ELSE IF q > 100 THEN 100 ELSE q

\* ------------------------------------------------------------------------
\* Query helpers.

\* All orderings of a finite set as sequences without repetition.
Perms(S) ==
  {q \in [1..Cardinality(S) -> S] : \A i, j \in 1..Cardinality(S) : i # j => q[i] # q[j]}

\* queryset.order_by('-score'): every order the database may answer with;
\* rows with equal scores come in an unspecified order, and the rows with a
\* NULL score come before all others or after all others, as the database
\* sorts NULLs.
OrderByScoreDesc(S, its) ==
  {q \in Perms(S) :
     /\ \A i, j \in 1..Cardinality(S) :
          (i < j /\ its[q[i]].score # NullScore /\ its[q[j]].score # NullScore)
            => its[q[i]].score >= its[q[j]].score
     /\ \/ \A i, j \in 1..Cardinality(S) :
             i < j => ~(its[q[i]].score = NullScore /\ its[q[j]].score # NullScore)
        \/ \A i, j \in 1..Cardinality(S) :
             i < j => ~(its[q[i]].score # NullScore /\ its[q[j]].score = NullScore)}

\* Mutant: .first() of an unordered queryset, any row.
FirstByScore_Unordered(S, its) == S

\* queryset.order_by('-score').first(): the candidates for the first row
\* (Item.Meta.ordering is ['-score'], so a plain .first() orders the same way):
\* a row of maximum score, or a row with a NULL score where NULLs sort first.
FirstByScore(S, its) ==
  {h \in S :
     \/ its[h].score = NullScore
     \/ \A g \in S : its[g].score = NullScore \/ its[g].score <= its[h].score}

\* Mutant: the filter forgets scope_id.
Matching_IgnoresScope(corrs, v, s) ==
  {c \in DOMAIN corrs : corrs[c].subject_value = v}

\* Correction.objects.filter(subject__value=v, scope_id=s)
Matching(corrs, v, s) ==
  {c \in DOMAIN corrs : corrs[c].subject_value = v /\ corrs[c].scope_id = s}

\* Mutant: ordering = ['updated_at'], the least recently updated first.
FirstMatch_Oldest(corrs, v, s) ==
  {c \in Matching(corrs, v, s) :
     \A d \in Matching(corrs, v, s) : corrs[d].updated_at >= corrs[c].updated_at}

\* corrections.first() under Meta.ordering = ['-updated_at'].
FirstMatch(corrs, v, s) ==
  {c \in Matching(corrs, v, s) :
     \A d \in Matching(corrs, v, s) : corrs[d].updated_at <= corrs[c].updated_at}

\* max(hypotheses, key=lambda h: h.score) raises TypeError: it compares the
\* scores of two elements and one of them is None.
MaxRaises(H) == Len(H) >= 2 /\ \E j \in 1..Len(H) : H[j].score = NullScore

\* [h for h in hypotheses if h.score > current_score] raises TypeError: an
\* element is compared and its score or current_score is None (views.py 488).
BetterRaises(H, current_score) ==
  Len(H) >= 1 /\ (current_score = NullScore \/ \E j \in 1..Len(H) : H[j].score = NullScore)

\* Mutant: hypotheses[0] instead of the maximum.
MaxIndex_First(H) == 1

\* max(hypotheses, key=lambda h: h.score): the index of the first maximum.
MaxIndex(H) ==
  CHOOSE i \in 1..Len(H) :
    /\ \A j \in 1..Len(H) : H[j].score <= H[i].score
    /\ \A j \in 1..(i - 1) : H[j].score < H[i].score

\* ------------------------------------------------------------------------
\* In-memory Item objects handed to the engine.

ItemValueOf(i) == "H" \o ToString(i)

\* Item.objects.get(pk=i): a freshly loaded object carries the stored fields.
Loaded(its, i) == [pk |-> i, score |-> its[i].score, value |-> its[i].value]

\* Item(value="Unsaved", score=s): never saved, so it has no pk.
Unsaved(s) == [pk |-> NoPk, score |-> s, value |-> "Unsaved"]

\* Scores of the unsaved objects a caller builds: the lowest and the highest.
UnsavedScores == {0, 10 * MaxTenth}

InputObjs(its) ==
  {Loaded(its, i) : i \in DOMAIN its} \cup {Unsaved(s) : s \in UnsavedScores}

SeqsUpTo(S, n) == UNION {[1..k -> S] : k \in 0..n}

\* ------------------------------------------------------------------------
\* Item.clean and Item.save.

\* Item.clean: at most one fractional digit, a multiple of 0.1, within [0, 1].
CleanOk(score) ==
  /\ score % 10 = 0
  /\ score >= 0
  /\ score <= 100

\* Item.save raises ValidationError: full_clean runs clean on the score that
\* save has normalized already (models.py 150-154).
SaveRaises(new) ==
  /\ new.score # NullScore
  /\ ~CleanOk(normalize_score(new.score))

\* Mutant: save writes the row as assigned, without normalization and clean.
ItemSaved_Unchecked(old, new) == [new EXCEPT !.suggested_by_reviewer = TRUE]

\* Mutant: save leaves suggested_by_reviewer as the caller set it.
ItemSaved_KeepsFlag(old, new) ==
  LET n == [new EXCEPT !.score = IF new.score = NullScore THEN NullScore
                                 ELSE normalize_score(new.score)]
  IN IF n.score = NullScore \/ CleanOk(n.score) THEN n ELSE old

\* Item.save: force suggested_by_reviewer, normalize the score, full_clean,
\* write the row.  The result is the stored row; a failed validation leaves
\* the old row (the caller sees ValidationError).
ItemSaved(old, new) ==
  LET n == [new EXCEPT !.suggested_by_reviewer = TRUE,
                       !.score = IF new.score = NullScore THEN NullScore
                                 ELSE normalize_score(new.score)]
  IN IF n.score = NullScore \/ CleanOk(n.score) THEN n ELSE old

\* ------------------------------------------------------------------------
\* Correction.save and Correction._ensure_unique_scores.

\* The for-loop of _ensure_unique_scores over the ordered hypotheses q, from
\* position i on: the hypotheses it puts into to_remove.
RECURSIVE WalkToRemove(_, _, _, _, _)
WalkToRemove(q, i, items_seen, scores_seen, its) ==
  IF i > Len(q) THEN {}
  ELSE IF q[i] \in items_seen
       THEN {q[i]} \cup WalkToRemove(q, i + 1, items_seen, scores_seen, its)
       ELSE IF its[q[i]].score = NullScore
       THEN WalkToRemove(q, i + 1, items_seen \cup {q[i]}, scores_seen, its)
       ELSE LET n == normalize_score(its[q[i]].score)
            IN IF n \in scores_seen
               THEN {q[i]} \cup WalkToRemove(q, i + 1, items_seen \cup {q[i]}, scores_seen, its)
               ELSE WalkToRemove(q, i + 1, items_seen \cup {q[i]}, scores_seen \cup {n}, its)

\* Mutant: the walk removes nothing.
EnsureUniqueScores_KeepsAll(hyps, its) == {hyps}

\* Mutant: the walk also removes the hypotheses whose score is NULL.
EnsureUniqueScores_DetachesNull(hyps, its) ==
  {{h \in hyps \ WalkToRemove(q, 1, {}, {}, its) : its[h].score # NullScore} :
     q \in OrderByScoreDesc(hyps, its)}

\* _ensure_unique_scores: the hypothesis sets it can leave, one per order the
\* database may return equal scores in.
EnsureUniqueScores(hyps, its) ==
  {hyps \ WalkToRemove(q, 1, {}, {}, its) : q \in OrderByScoreDesc(hyps, its)}

\* Mutant: a timestamp earlier than every stored one.
Now_Earliest(corrs) == 0

\* auto_now: a timestamp later than every stored one.
Now(corrs) ==
  1 + CHOOSE m \in {corrs[c].updated_at : c \in DOMAIN corrs} :
        \A d \in DOMAIN corrs : corrs[d].updated_at <= m

\* Mutant: save() without the call of _ensure_unique_scores.
CorrectionSaved_NoPrune(corrs, c, st, its) ==
  {[corrs EXCEPT ![c].status = st, ![c].updated_at = Now(corrs)]}

\* Mutant: save() that leaves updated_at as it was stored.
CorrectionSaved_KeepsTime(corrs, c, st, its) ==
  {[corrs EXCEPT ![c].status = st, ![c].hypotheses = kept] :
     kept \in EnsureUniqueScores(corrs[c].hypotheses, its)}

\* Correction.save of the in-memory object of c whose status field is st:
\* super().save() writes status and updated_at, then the hypotheses are pruned.
CorrectionSaved(corrs, c, st, its) ==
  {[corrs EXCEPT ![c].status = st, ![c].updated_at = Now(corrs), ![c].hypotheses = kept] :
     kept \in EnsureUniqueScores(corrs[c].hypotheses, its)}

\* Stored timestamps renumbered to their ranks (their order is all the
\* program reads).
Renumber(corrs) ==
  [c \in DOMAIN corrs |->
     [corrs[c] EXCEPT !.updated_at =
        Cardinality({corrs[d].updated_at :
                       d \in {e \in DOMAIN corrs : corrs[e].updated_at <= corrs[c].updated_at}})]]

\* correction.hypotheses.add(h) for each h of L in turn: add() raises
\* ValueError on an object without pk, so the objects before the first
\* unsaved one are attached.
AddRaises(L) == \E j \in 1..Len(L) : L[j].pk = NoPk

Added(L) ==
  {L[j].pk : j \in {k \in 1..Len(L) : \A m \in 1..k : L[m].pk # NoPk}}

\* Mutant: only the first object of the list is added.
Attach_FirstOnly(corrs, c, L) ==
  [corrs EXCEPT ![c].hypotheses = @ \cup {L[j].pk : j \in {k \in 1..Len(L) : k = 1 /\ L[k].pk # NoPk}}]

Attach(corrs, c, L) == [corrs EXCEPT ![c].hypotheses = @ \cup Added(L)]

\* ------------------------------------------------------------------------
\* What a call hands back.

SubjectRet(v) == [kind |-> "subject", pk |-> NoPk, idx |-> 0, score |-> 0, value |-> v]
InputRet(H, i) == [kind |-> "input", pk |-> H[i].pk, idx |-> i, score |-> H[i].score, value |-> H[i].value]
DbRet(its, i) == [kind |-> "db", pk |-> i, idx |-> 0, score |-> its[i].score, value |-> its[i].value]
RaiseRet(e) == [kind |-> "raise", pk |-> NoPk, idx |-> 0, score |-> 0, value |-> e]
ValueRet(v) == [kind |-> "value", pk |-> NoPk, idx |-> 0, score |-> 0, value |-> v]
NoRet == [kind |-> "none", pk |-> NoPk, idx |-> 0, score |-> 0, value |-> ""]
\* A method without return statement that came back: None.
ReturnsNone == [kind |-> "return", pk |-> NoPk, idx |-> 0, score |-> 0, value |-> "None"]

Outcome(cs, its, r) == [corrections |-> cs, items |-> its, ret |-> r]

\* ------------------------------------------------------------------------
\* Correction.add_hypothesis (models.py 319-348).

\* Mutant: the incoming score is compared as assigned, not normalized.
add_hypothesis_RawCompare(corrs, its, c, i, obj, check_uniqueness) ==
  IF c = NoCorr THEN Outcome(corrs, its, RaiseRet("ValidationError"))
  ELSE LET existing_scores == {normalize_score(its[h].score) :
                                 h \in {g \in corrs[c].hypotheses : its[g].score # NullScore}}
       IN IF i \in corrs[c].hypotheses THEN Outcome(corrs, its, ReturnsNone)
          ELSE IF /\ check_uniqueness
                  /\ obj.score # NullScore
                  /\ obj.score \in existing_scores
               THEN Outcome(corrs, its, RaiseRet("ValidationError"))
               ELSE IF SaveRaises(obj) THEN Outcome(corrs, its, RaiseRet("ValidationError"))
               ELSE Outcome([corrs EXCEPT ![c].hypotheses = @ \cup {i}],
                            [its EXCEPT ![i] = ItemSaved(@, [obj EXCEPT !.suggested_by_reviewer = TRUE])],
                            ReturnsNone)

\* Mutant: the uniqueness check comes before the "already added" check.
add_hypothesis_ChecksFirst(corrs, its, c, i, obj, check_uniqueness) ==
  IF c = NoCorr THEN Outcome(corrs, its, RaiseRet("ValidationError"))
  ELSE LET existing_scores == {normalize_score(its[h].score) :
                                 h \in {g \in corrs[c].hypotheses : its[g].score # NullScore}}
       IN IF /\ check_uniqueness
             /\ obj.score # NullScore
             /\ normalize_score(obj.score) \in existing_scores
          THEN Outcome(corrs, its, RaiseRet("ValidationError"))
          ELSE IF i \in corrs[c].hypotheses THEN Outcome(corrs, its, ReturnsNone)
          ELSE IF SaveRaises(obj) THEN Outcome(corrs, its, RaiseRet("ValidationError"))
          ELSE Outcome([corrs EXCEPT ![c].hypotheses = @ \cup {i}],
                       [its EXCEPT ![i] = ItemSaved(@, [obj EXCEPT !.suggested_by_reviewer = TRUE])],
                       ReturnsNone)

\* correction.add_hypothesis(hypothesis, check_uniqueness) for the in-memory
\* correction c (NoCorr: a Correction that was never saved, without pk) and
\* the in-memory object obj of the stored item i: ValidationError without pk;
\* nothing happens if i is attached already; the checked path raises
\* ValidationError when the normalized score is taken; otherwise the item is
\* saved and attached (no Correction.save runs).
add_hypothesis(corrs, its, c, i, obj, check_uniqueness) ==
  IF c = NoCorr THEN Outcome(corrs, its, RaiseRet("ValidationError"))
  ELSE LET existing_scores == {normalize_score(its[h].score) :
                                 h \in {g \in corrs[c].hypotheses : its[g].score # NullScore}}
       IN IF i \in corrs[c].hypotheses THEN Outcome(corrs, its, ReturnsNone)
          ELSE IF /\ check_uniqueness
                  /\ obj.score # NullScore
                  /\ normalize_score(obj.score) \in existing_scores
               THEN Outcome(corrs, its, RaiseRet("ValidationError"))
               ELSE IF SaveRaises(obj) THEN Outcome(corrs, its, RaiseRet("ValidationError"))
               ELSE Outcome([corrs EXCEPT ![c].hypotheses = @ \cup {i}],
                            [its EXCEPT ![i] = ItemSaved(@, [obj EXCEPT !.suggested_by_reviewer = TRUE])],
                            ReturnsNone)

\* add_hypothesis for the stored item i whose in-memory score the caller has
\* set to raw: the store the call leaves.
AddedHypothesis(corrs, its, c, i, raw, check_uniqueness) ==
  add_hypothesis(corrs, its, c, i, [its[i] EXCEPT !.score = raw], check_uniqueness)

\* ------------------------------------------------------------------------
\* apply_correction, one operator per branch: the set of outcomes
\* (store after the call, result) the branch can produce.

\* Mutant: a correction is created for a key that has none.
NoCorrectionBranch_Creates(corrs, its, v, H) ==
  {Outcome([c \in DOMAIN corrs \cup {1 + Cardinality(DOMAIN corrs)} |->
              IF c \in DOMAIN corrs THEN corrs[c]
              ELSE [subject_value |-> v, scope_id |-> 0, status |-> STATUS_PENDING,
                    hypotheses |-> {}, updated_at |-> Now(corrs)]],
           its, IF MaxRaises(H) THEN RaiseRet("TypeError")
                ELSE IF Len(H) > 0 THEN InputRet(H, MaxIndex(H)) ELSE SubjectRet(v))}

\* No correction for the key (views.py 473-477).
NoCorrectionBranch(corrs, its, v, H) ==
  {Outcome(corrs, its, IF MaxRaises(H) THEN RaiseRet("TypeError")
                       ELSE IF Len(H) > 0 THEN InputRet(H, MaxIndex(H)) ELSE SubjectRet(v))}

\* Mutant: order_by('score'), the lowest score first.
BestOrSubject_Lowest(cs, its, c, v) ==
  IF cs[c].hypotheses = {} THEN {SubjectRet(v)}
  ELSE {DbRet(its, b) :
          b \in {h \in cs[c].hypotheses : \A g \in cs[c].hypotheses : its[h].score <= its[g].score}}

\* hypotheses.order_by('-score').first() or subject
BestOrSubject(cs, its, c, v) ==
  IF cs[c].hypotheses = {} THEN {SubjectRet(v)}
  ELSE {DbRet(its, b) : b \in FirstByScore(cs[c].hypotheses, its)}

\* Mutant: the status assignment before save() is missing.
ApprovedWith_KeepsStatus(corrs, its, c, v, H, a) ==
  LET Better(h) == a = NoPk \/ h.score > its[a].score
      new_better_hypotheses == SelectSeq(H, Better)
      attached == Attach(corrs, c, new_better_hypotheses)
  IN IF BetterRaises(H, IF a = NoPk THEN 0 ELSE its[a].score)
     THEN {Outcome(corrs, its, RaiseRet("TypeError"))}
     ELSE IF Len(new_better_hypotheses) > 0 /\ AddRaises(new_better_hypotheses)
     THEN {Outcome(attached, its, RaiseRet("ValueError"))}
     ELSE UNION {
            {Outcome(cs, its, r) :
               r \in IF a # NoPk THEN {DbRet(its, a)} ELSE BestOrSubject(cs, its, c, v)} :
            cs \in IF Len(new_better_hypotheses) > 0
                   THEN CorrectionSaved(attached, c, corrs[c].status, its)
                   ELSE {corrs}}

\* Mutant: h.score >= current_score.
ApprovedWith_Geq(corrs, its, c, v, H, a) ==
  LET Better(h) == a = NoPk \/ h.score >= its[a].score
      new_better_hypotheses == SelectSeq(H, Better)
      attached == Attach(corrs, c, new_better_hypotheses)
  IN IF BetterRaises(H, IF a = NoPk THEN 0 ELSE its[a].score)
     THEN {Outcome(corrs, its, RaiseRet("TypeError"))}
     ELSE IF Len(new_better_hypotheses) > 0 /\ AddRaises(new_better_hypotheses)
     THEN {Outcome(attached, its, RaiseRet("ValueError"))}
     ELSE UNION {
            {Outcome(cs, its, r) :
               r \in IF a # NoPk THEN {DbRet(its, a)} ELSE BestOrSubject(cs, its, c, v)} :
            cs \in IF Len(new_better_hypotheses) > 0
                   THEN CorrectionSaved(attached, c, STATUS_PENDING, its)
                   ELSE {corrs}}

\* STATUS_APPROVED with approved_hyp = a (NoPk: there is none) (views.py 485-501).
ApprovedWith(corrs, its, c, v, H, a) ==
  LET Better(h) == a = NoPk \/ h.score > its[a].score
      new_better_hypotheses == SelectSeq(H, Better)
      attached == Attach(corrs, c, new_better_hypotheses)
  IN IF BetterRaises(H, IF a = NoPk THEN 0 ELSE its[a].score)
     THEN {Outcome(corrs, its, RaiseRet("TypeError"))}
     ELSE IF Len(new_better_hypotheses) > 0 /\ AddRaises(new_better_hypotheses)
     THEN {Outcome(attached, its, RaiseRet("ValueError"))}
     ELSE UNION {
            {Outcome(cs, its, r) :
               r \in IF a # NoPk THEN {DbRet(its, a)} ELSE BestOrSubject(cs, its, c, v)} :
            cs \in IF Len(new_better_hypotheses) > 0
                   THEN CorrectionSaved(attached, c, STATUS_PENDING, its)
                   ELSE {corrs}}

ApprovedBranch(corrs, its, c, v, H) ==
  LET approved == FirstByScore({h \in corrs[c].hypotheses : its[h].approved}, its)
  IN UNION {ApprovedWith(corrs, its, c, v, H, a) :
              a \in IF approved = {} THEN {NoPk} ELSE approved}

\* Mutant: the branch writes STATUS_APPROVED.
PendingBranch_WritesApproved(corrs, its, c, v, H) ==
  LET attached == Attach(corrs, c, H)
  IN IF AddRaises(H)
     THEN {Outcome(attached, its, RaiseRet("ValueError"))}
     ELSE UNION {
            {Outcome(cs, its, r) : r \in BestOrSubject(cs, its, c, v)} :
            cs \in CorrectionSaved(attached, c, STATUS_APPROVED, its)}

\* STATUS_PENDING (views.py 504-511).
PendingBranch(corrs, its, c, v, H) ==
  LET attached == Attach(corrs, c, H)
  IN IF AddRaises(H)
     THEN {Outcome(attached, its, RaiseRet("ValueError"))}
     ELSE UNION {
            {Outcome(cs, its, r) : r \in BestOrSubject(cs, its, c, v)} :
            cs \in CorrectionSaved(attached, c, STATUS_PENDING, its)}

\* Mutant: the loop resets the score and leaves approved.
ResetReviewerHypotheses_KeepsApproved(corrs, its, c) ==
  [i \in DOMAIN its |->
     IF i \in corrs[c].hypotheses /\ its[i].suggested_by_reviewer
     THEN ItemSaved(its[i], [its[i] EXCEPT !.score = 0])
     ELSE its[i]]

\* The reset loop of the INVALID branch (views.py 516-519).
ResetReviewerHypotheses(corrs, its, c) ==
  [i \in DOMAIN its |->
     IF i \in corrs[c].hypotheses /\ its[i].suggested_by_reviewer
     THEN ItemSaved(its[i], [its[i] EXCEPT !.score = 0, !.approved = FALSE])
     ELSE its[i]]

\* Mutant: the branch returns the best stored hypothesis, as PENDING does.
InvalidBranch_ReturnsStoredBest(corrs, its, c, v, H) ==
  LET its1 == ResetReviewerHypotheses(corrs, its, c)
      attached == Attach(corrs, c, H)
  IN IF AddRaises(H)
     THEN {Outcome(attached, its1, RaiseRet("ValueError"))}
     ELSE UNION {
            {Outcome(cs, its1, r) : r \in BestOrSubject(cs, its1, c, v)} :
            cs \in CorrectionSaved(attached, c, STATUS_PENDING, its1)}

\* STATUS_INVALID (views.py 514-532).
InvalidBranch(corrs, its, c, v, H) ==
  LET its1 == ResetReviewerHypotheses(corrs, its, c)
      attached == Attach(corrs, c, H)
  IN IF AddRaises(H)
     THEN {Outcome(attached, its1, RaiseRet("ValueError"))}
     ELSE {Outcome(cs, its1, IF MaxRaises(H) THEN RaiseRet("TypeError")
                             ELSE IF Len(H) > 0 THEN InputRet(H, MaxIndex(H)) ELSE SubjectRet(v)) :
             cs \in CorrectionSaved(attached, c, STATUS_PENDING, its1)}

\* The whole function for the selected correction c (NoCorr: none exists).
ApplyOutcomes(corrs, its, c, v, H) ==
  IF c = NoCorr THEN NoCorrectionBranch(corrs, its, v, H)
  ELSE IF corrs[c].status = STATUS_APPROVED THEN ApprovedBranch(corrs, its, c, v, H)
  ELSE IF corrs[c].status = STATUS_PENDING THEN PendingBranch(corrs, its, c, v, H)
  ELSE IF corrs[c].status = STATUS_INVALID THEN InvalidBranch(corrs, its, c, v, H)
  ELSE {Outcome(corrs, its, SubjectRet(v))}

\* ------------------------------------------------------------------------
\* get_approved_correction_for_subject (views.py 537-557).

\* Mutant: the lookup forgets status=STATUS_APPROVED.
FirstApproved_AnyStatus(corrs, v, s) == FirstMatch(corrs, v, s)

\* Correction.objects.filter(subject__value=v, scope_id=s, status=APPROVED)
\* .first() under Meta.ordering = ['-updated_at'].
FirstApproved(corrs, v, s) ==
  LET approved == {c \in Matching(corrs, v, s) : corrs[c].status = STATUS_APPROVED}
  IN {c \in approved : \A d \in approved : corrs[d].updated_at <= corrs[c].updated_at}

\* Mutant: the resolver saves the correction it found.
ResolveWith_Saves(corrs, its, v, c) ==
  IF c = NoCorr THEN {Outcome(corrs, its, ValueRet(v))}
  ELSE LET approved_hyps == {h \in corrs[c].hypotheses : its[h].approved}
       IN UNION {
            {Outcome(cs, its, r) :
               r \in IF approved_hyps = {} THEN {ValueRet(v)}
                     ELSE {ValueRet(its[a].value) : a \in FirstByScore(approved_hyps, its)}} :
            cs \in CorrectionSaved(corrs, c, corrs[c].status, its)}

\* The body for the correction c the lookup found (NoCorr: none): the value
\* of correction.hypotheses.filter(approved=True).first(), else subject_value.
ResolveWith(corrs, its, v, c) ==
  IF c = NoCorr THEN {Outcome(corrs, its, ValueRet(v))}
  ELSE LET approved_hyps == {h \in corrs[c].hypotheses : its[h].approved}
       IN IF approved_hyps = {} THEN {Outcome(corrs, its, ValueRet(v))}
          ELSE {Outcome(corrs, its, ValueRet(its[a].value)) : a \in FirstByScore(approved_hyps, its)}

\* ------------------------------------------------------------------------
\* Correction.get_optimal_hypothesis (models.py 350-363).

\* Mutant: the query does not exclude the NULL scores.
BestNonNull_KeepsNull(hyps, its) == FirstByScore(hyps, its)

\* self.hypotheses.exclude(score__isnull=True).order_by('-score').first()
BestNonNull(hyps, its) == FirstByScore({h \in hyps : its[h].score # NullScore}, its)

\* The results the method can give for the stored correction c.
get_optimal_hypothesis(corrs, its, c) ==
  LET approved_hypothesis == FirstByScore({h \in corrs[c].hypotheses : its[h].approved}, its)
      best_hypothesis == BestNonNull(corrs[c].hypotheses, its)
  IN IF corrs[c].status = STATUS_APPROVED /\ approved_hypothesis # {}
     THEN {DbRet(its, a) : a \in approved_hypothesis}
     ELSE IF corrs[c].status = STATUS_INVALID THEN {SubjectRet(corrs[c].subject_value)}
     ELSE IF best_hypothesis # {} THEN {DbRet(its, b) : b \in best_hypothesis}
     ELSE {SubjectRet(corrs[c].subject_value)}

\* ------------------------------------------------------------------------
\* Call records.

NoPre == [status |-> STATUS_PENDING, hypotheses |-> {}, updated_at |-> 0]

PreOf(corrs, c) ==
  IF c = NoCorr THEN NoPre
  ELSE [status |-> corrs[c].status, hypotheses |-> corrs[c].hypotheses,
        updated_at |-> corrs[c].updated_at]

CallRecord(op, v, s, H, c, pre, post_updated_at, r) ==
  [op |-> op, subject_value |-> v, scope_id |-> s, hypotheses |-> H,
   correction |-> c, pre |-> pre, post_updated_at |-> post_updated_at, ret |-> r]

AdminRecord(op, c) == CallRecord(op, "", 0, <<>>, c, NoPre, 0, NoRet)

\* ------------------------------------------------------------------------
\* Actions.  A caller examines one call at a time: `last` holds the record of
\* the call under examination and is Idle between calls; Done drops it.

Idle == AdminRecord("idle", NoCorr)

\* No call came before the last one.
NoFirst == [ret |-> NoRet, pre |-> NoPre, wrote |-> FALSE]
\* No concurrent invocation is under way.
NoCalls == <<>>
\* No normalize_score computation is under way.
NoCalc == [stage |-> "none", x |-> 0, once |-> 0, twice |-> 0]

\* The record of a call of a model method: the correction it was called on
\* or with, the item and its in-memory fields, the store before the call.
ModelCall(op, c, i, obj, check_uniqueness, r) ==
  [op |-> op, correction |-> c, pk |-> i, item |-> obj, check_uniqueness |-> check_uniqueness,
   pre_items |-> items, pre_corrections |-> corrections, ret |-> r]

\* The in-memory object of the stored item i after the caller has assigned
\* its fields.
Assigned(i, raw, approved, flag) ==
  [value |-> items[i].value, score |-> raw, approved |-> approved,
   suggested_by_reviewer |-> flag]

NoObj == [value |-> "", score |-> NullScore, approved |-> FALSE, suggested_by_reviewer |-> FALSE]

\* apply_correction(subject, hypotheses, scope_id) (views.py 464-534).
apply_correction(v, H, s) ==
  \E c \in IF Matching(corrections, v, s) = {} THEN {NoCorr} ELSE FirstMatch(corrections, v, s) :
    \E o \in ApplyOutcomes(corrections, items, c, v, H) :
      /\ corrections' = Renumber(o.corrections)
      /\ items' = o.items
      /\ last' = CallRecord("apply_correction", v, s, H, c, PreOf(corrections, c),
                            IF c = NoCorr THEN 0 ELSE o.corrections[c].updated_at, o.ret)
      /\ UNCHANGED <<first, calls, calc>>

\* A fresh call of apply_correction with freshly built or loaded arguments.
ApplyCorrection ==
  /\ last = Idle
  /\ \E v \in SubjectValues, s \in ScopeIds, H \in SeqsUpTo(InputObjs(items), MaxHyps) :
       apply_correction(v, H, s)

\* get_approved_correction_for_subject(subject_value, scope_id).
get_approved_correction_for_subject(v, s) ==
  /\ last = Idle
  /\ \E c \in IF FirstApproved(corrections, v, s) = {} THEN {NoCorr}
               ELSE FirstApproved(corrections, v, s) :
       \E o \in ResolveWith(corrections, items, v, c) :
         /\ corrections' = Renumber(o.corrections)
         /\ items' = o.items
         /\ last' = CallRecord("get_approved_correction_for_subject", v, s, << >>, c,
                               PreOf(corrections, c),
                               IF c = NoCorr THEN 0 ELSE o.corrections[c].updated_at, o.ret)
  /\ UNCHANGED <<first, calls, calc>>

\* The call recorded in `last` issued no INSERT, UPDATE or DELETE: it found no
\* correction, or took the APPROVED branch without a better hypothesis.
WroteNothing ==
  \/ last.correction = NoCorr
  \/ /\ last.post_updated_at = last.pre.updated_at
     /\ last.ret.kind # "raise"

\* The caller repeats the call it has just made, with the same subject, the
\* same list of Item objects (their in-memory fields are as they were: the
\* function assigns to none of them) and the same scope.  The order of rows
\* with equal scores is the database's choice, but a statement repeated on
\* unchanged tables gets the same rows: after a call that wrote nothing the
\* second call reads what the first one read.
RepeatApplyCorrection ==
  /\ last.op = "apply_correction"
  /\ first = NoFirst
  /\ first' = [ret |-> last.ret, pre |-> last.pre, wrote |-> ~WroteNothing]
  /\ \E c \in IF Matching(corrections, last.subject_value, last.scope_id) = {} THEN {NoCorr}
               ELSE FirstMatch(corrections, last.subject_value, last.scope_id) :
       \E o \in ApplyOutcomes(corrections, items, c, last.subject_value, last.hypotheses) :
         /\ WroteNothing => o.ret = last.ret
         /\ corrections' = Renumber(o.corrections)
         /\ items' = o.items
         /\ last' = CallRecord("apply_correction", last.subject_value, last.scope_id,
                               last.hypotheses, c, PreOf(corrections, c),
                               IF c = NoCorr THEN 0 ELSE o.corrections[c].updated_at, o.ret)
  /\ UNCHANGED <<calls, calc>>

\* The caller is done with the result of the last call.
Done ==
  /\ last # Idle
  /\ last' = Idle
  /\ first' = NoFirst
  /\ UNCHANGED <<items, corrections, calls, calc>>

\* Item.save() of a stored item whose score and approved fields a caller
\* (the admin form) has set.
ItemSave(i, raw, approved) ==
  /\ last = Idle
  /\ items' = [items EXCEPT ![i] = ItemSaved(@, [@ EXCEPT !.score = raw, !.approved = approved])]
  /\ UNCHANGED <<corrections, last, first, calls, calc>>

\* Correction.save() after the status field was edited (the admin form).
CorrectionSave(c, st) ==
  /\ last = Idle
  /\ \E cs \in CorrectionSaved(corrections, c, st, items) : corrections' = Renumber(cs)
  /\ UNCHANGED <<items, last, first, calls, calc>>

\* correction.hypotheses.set(S): the M2M rows written directly (the admin
\* inline, the tests' setUp); no Correction.save runs.
HypothesesSet(c, S) ==
  /\ last = Idle
  /\ corrections' = [corrections EXCEPT ![c].hypotheses = S]
  /\ UNCHANGED <<items, last, first, calls, calc>>

\* correction.add_hypothesis(item, check_uniqueness) (models.py 319-348).
AddHypothesis(c, i, raw, check_uniqueness) ==
  /\ last = Idle
  /\ LET after == AddedHypothesis(corrections, items, c, i, raw, check_uniqueness)
     IN /\ corrections' = after.corrections
        /\ items' = after.items
  /\ UNCHANGED <<last, first, calls, calc>>

\* item.save() of the stored item i after the caller has assigned score,
\* approved and suggested_by_reviewer (models.py 145-155).
ItemSaveCall(i, raw, approved, flag) ==
  /\ last = Idle
  /\ LET obj == Assigned(i, raw, approved, flag)
     IN /\ items' = [items EXCEPT ![i] = ItemSaved(@, obj)]
        /\ last' = ModelCall("save", NoCorr, i, obj, FALSE,
                             IF SaveRaises(obj) THEN RaiseRet("ValidationError") ELSE ReturnsNone)
  /\ UNCHANGED <<corrections, first, calls, calc>>

\* correction.add_hypothesis(item, check_uniqueness) on the stored correction
\* c, or on a Correction object that was never saved (c = NoCorr), with the
\* stored item i after the caller has assigned score and suggested_by_reviewer.
AddHypothesisCall(c, i, raw, flag, check_uniqueness) ==
  /\ last = Idle
  /\ LET obj == Assigned(i, raw, items[i].approved, flag)
         o == add_hypothesis(corrections, items, c, i, obj, check_uniqueness)
     IN /\ corrections' = o.corrections
        /\ items' = o.items
        /\ last' = ModelCall("add_hypothesis", c, i, obj, check_uniqueness, o.ret)
  /\ UNCHANGED <<first, calls, calc>>

\* correction.get_optimal_hypothesis() on the stored correction c.
GetOptimalHypothesis(c) ==
  /\ last = Idle
  /\ \E r \in get_optimal_hypothesis(corrections, items, c) :
       last' = ModelCall("get_optimal_hypothesis", c, NoPk, NoObj, FALSE, r)
  /\ UNCHANGED <<items, corrections, first, calls, calc>>

\* A fresh call of apply_correction whose hypotheses are all persisted.
ApplyCorrectionPersisted ==
  /\ last = Idle
  /\ \E v \in SubjectValues, s \in ScopeIds,
        H \in SeqsUpTo({Loaded(items, i) : i \in DOMAIN items}, MaxHyps) :
       apply_correction(v, H, s)

\* ------------------------------------------------------------------------
\* normalize_score on its own: a caller normalizes a decimal and then
\* normalizes the result again.

\* The decimals tried, in hundredths: from below 0.0 to above 1.0.
NormInputs == (0 - MaxExcess)..(100 + MaxExcess)

NormalizeOnce ==
  /\ calc.stage = "input"
  /\ calc' = [calc EXCEPT !.stage = "once", !.once = normalize_score(calc.x)]
  /\ UNCHANGED <<items, corrections, last, first, calls>>

NormalizeTwice ==
  /\ calc.stage = "once"
  /\ calc' = [calc EXCEPT !.stage = "twice", !.twice = normalize_score(calc.once)]
  /\ UNCHANGED <<items, corrections, last, first, calls>>

\* ------------------------------------------------------------------------
\* Item.matches_context on its own (models.py 176-195).  A context tag is the
\* pair <<key, value>>; a ContextElement row adds the flag important, and
\* (key, value) is unique among the rows.  The float the method returns is
\* kept as the fraction num/den.

ContextKeys == {"group", "room"}
ContextValues == {"a", "b"}
\* The tags of the ContextElement rows that exist.
RowTags == (ContextKeys \X ContextValues) \ {<<"room", "b">>}
\* The tags a caller can put into other_context: also one without row.
OtherTags == ContextKeys \X ContextValues

Fraction(num, den) == [num |-> num, den |-> den]

\* Mutant: check_important_only is ignored.
matches_context_AllTags(context, other_context, check_important_only) ==
  LET my_context == {<<ctx.key, ctx.value>> : ctx \in context}
  IN IF context = {} THEN Fraction(0, 1)
     ELSE IF my_context = {} THEN Fraction(0, 1)
     ELSE Fraction(Cardinality(my_context \cap other_context), Cardinality(my_context))

\* item.matches_context(other_context, check_important_only) for an item with
\* the ContextElement rows context.
matches_context(context, other_context, check_important_only) ==
  LET my_context == {<<ctx.key, ctx.value>> :
                       ctx \in {x \in context : ~check_important_only \/ x.important}}
  IN IF context = {} THEN Fraction(0, 1)
     ELSE IF my_context = {} THEN Fraction(0, 1)
     ELSE Fraction(Cardinality(my_context \cap other_context), Cardinality(my_context))

MatchesContext ==
  /\ calc.stage = "context"
  /\ calc' = [calc EXCEPT !.stage = "matched",
                          !.result = matches_context(calc.context, calc.other_context,
                                                     calc.check_important_only)]
  /\ UNCHANGED <<items, corrections, last, first, calls>>

\* ------------------------------------------------------------------------
\* Two invocations of apply_correction for the key of correction 1 that run
\* at the same time (two requests).  Every step is one statement that reaches
\* the database; between two steps the other invocation may run.  No
\* transaction and no lock surrounds the statements (views.py 464-534).
\* calls.of[p] holds the locals of invocation p: pc, the argument H, the
\* in-memory correction.status, and the rows the running loop has yet to
\* visit.  calls.start is the store both invocations started on.  The
\* queries behind the return value write nothing and are left out: an
\* invocation is done after its last write.

CallIds == {1, 2}
RaceKey == "Math"
RaceCorr == 1

Local(pc, H, status, queue) == [pc |-> pc, H |-> H, status |-> status, queue |-> queue]

PksOf(L) == [j \in 1..Len(L) |-> L[j].pk]

\* Where a loop over queue goes: into its body, or past it when it is empty.
Into(queue, body, past) == IF queue = << >> THEN past ELSE body

Running(p) == calls.of[p].pc \notin {"start", "done"}

\* The steps of invocation p leave the other invocation's locals alone.
SetLocal(p, l) == calls' = [calls EXCEPT !.of[p] = l]

\* corrections.exists() and correction = corrections.first(): the status is
\* read into the in-memory object (views.py 468-480).  The PENDING branch
\* starts its loop over hypotheses.
Lookup(p) ==
  LET l == calls.of[p]
      st == corrections[RaceCorr].status
  IN /\ l.pc = "start"
     /\ calls' = [calls EXCEPT
                    !.of[p] = IF st = STATUS_APPROVED THEN Local("approved_read", l.H, st, << >>)
                              ELSE IF st = STATUS_PENDING
                                   THEN Local(Into(PksOf(l.H), "add", "save"), l.H, st, PksOf(l.H))
                                   ELSE Local("invalid_read", l.H, st, << >>),
                    !.overlap = @ \/ \E q \in CallIds \ {p} : Running(q)]
     /\ UNCHANGED <<items, corrections, last, first, calc>>

\* approved_hyp = correction.hypotheses.filter(approved=True).first() and the
\* list new_better_hypotheses (views.py 485-489); without better hypotheses
\* the branch writes nothing.
ApprovedRead(p) ==
  LET l == calls.of[p]
      approved == FirstByScore({h \in corrections[RaceCorr].hypotheses : items[h].approved}, items)
  IN /\ l.pc = "approved_read"
     /\ \E a \in IF approved = {} THEN {NoPk} ELSE approved :
          LET Better(h) == a = NoPk \/ h.score > items[a].score
              new_better_hypotheses == SelectSeq(l.H, Better)
          IN SetLocal(p, IF new_better_hypotheses = << >>
                         THEN Local("done", l.H, l.status, << >>)
                         ELSE Local("add", l.H, STATUS_PENDING, PksOf(new_better_hypotheses)))
     /\ UNCHANGED <<items, corrections, last, first, calc>>

\* for hyp in correction.hypotheses.filter(suggested_by_reviewer=True): the
\* rows are loaded when the loop starts (views.py 516).
InvalidRead(p) ==
  LET l == calls.of[p]
      reviewer == {h \in corrections[RaceCorr].hypotheses : items[h].suggested_by_reviewer}
  IN /\ l.pc = "invalid_read"
     /\ \E q \in OrderByScoreDesc(reviewer, items) :
          SetLocal(p, IF q = << >>
                      THEN Local(Into(PksOf(l.H), "add", "save"), l.H, STATUS_PENDING, PksOf(l.H))
                      ELSE Local("invalid_save", l.H, l.status, q))
     /\ UNCHANGED <<items, corrections, last, first, calc>>

\* hyp.score = 0; hyp.approved = False; hyp.save() for the next loaded row
\* (views.py 517-519); after the last one the loop over hypotheses starts
\* and correction.status is assigned.
InvalidSave(p) ==
  LET l == calls.of[p]
      h == Head(l.queue)
      rest == Tail(l.queue)
  IN /\ l.pc = "invalid_save"
     /\ items' = [items EXCEPT ![h] = ItemSaved(@, [@ EXCEPT !.score = 0, !.approved = FALSE])]
     /\ SetLocal(p, IF rest = << >>
                     THEN Local(Into(PksOf(l.H), "add", "save"), l.H, STATUS_PENDING, PksOf(l.H))
                     ELSE Local("invalid_save", l.H, l.status, rest))
     /\ UNCHANGED <<corrections, last, first, calc>>

\* correction.hypotheses.add(hyp) for the next hypothesis of the loop.
AddStep(p) ==
  LET l == calls.of[p]
  IN /\ l.pc = "add"
     /\ corrections' = [corrections EXCEPT ![RaceCorr].hypotheses = @ \cup {Head(l.queue)}]
     /\ SetLocal(p, Local(Into(Tail(l.queue), "add", "save"), l.H, l.status, Tail(l.queue)))
     /\ UNCHANGED <<items, last, first, calc>>

\* correction.save(): super().save() writes the row of the in-memory object,
\* its status included (models.py 277-279).
SaveStep(p) ==
  LET l == calls.of[p]
  IN /\ l.pc = "save"
     /\ corrections' = Renumber([corrections EXCEPT ![RaceCorr].status = l.status,
                                                    ![RaceCorr].updated_at = Now(corrections)])
     /\ SetLocal(p, Local("prune_read", l.H, l.status, << >>))
     /\ UNCHANGED <<items, last, first, calc>>

\* Mutant: the loop puts nothing into to_remove.
ToRemove_Nothing(q, its) == << >>

\* The list to_remove of _ensure_unique_scores for the loaded list q, in the
\* order of the walk (models.py 288-308).
ToRemove(q, its) ==
  LET Removed(h) == h \in WalkToRemove(q, 1, {}, {}, its)
  IN SelectSeq(q, Removed)

\* hypotheses = list(self.hypotheses.all().order_by('-score')) and the walk
\* over the loaded list (models.py 287-308).
PruneRead(p) ==
  LET l == calls.of[p]
  IN /\ l.pc = "prune_read"
     /\ \E q \in OrderByScoreDesc(corrections[RaceCorr].hypotheses, items) :
          SetLocal(p, Local(Into(ToRemove(q, items), "remove", "done"), l.H, l.status,
                            ToRemove(q, items)))
     /\ UNCHANGED <<items, corrections, last, first, calc>>

\* self.hypotheses.remove(hyp) for the next hypothesis of to_remove
\* (models.py 311-315).
RemoveStep(p) ==
  LET l == calls.of[p]
  IN /\ l.pc = "remove"
     /\ corrections' = [corrections EXCEPT ![RaceCorr].hypotheses = @ \ {Head(l.queue)}]
     /\ SetLocal(p, Local(Into(Tail(l.queue), "remove", "done"), l.H, l.status, Tail(l.queue)))
     /\ UNCHANGED <<items, last, first, calc>>

\* ------------------------------------------------------------------------
Init ==
  /\ items = [i \in ItemIds |->
                [value |-> ItemValueOf(i), score |-> 10 * MaxTenth,
                 approved |-> FALSE, suggested_by_reviewer |-> TRUE]]
  /\ corrections = [c \in CorrIds |->
                      [subject_value |-> "Math", scope_id |-> 0, status |-> STATUS_PENDING,
                       hypotheses |-> {}, updated_at |-> 1]]
  /\ last = Idle
  /\ first = NoFirst
  /\ calls = NoCalls
  /\ calc = NoCalc

Next ==
  \/ ApplyCorrection
  \/ \E v \in SubjectValues, s \in ScopeIds : get_approved_correction_for_subject(v, s)
  \/ Done
  \/ \E i \in DOMAIN items, raw \in RawScores, approved \in BOOLEAN :
       ItemSave(i, raw, approved)
  \/ \E c \in DOMAIN corrections, st \in Statuses : CorrectionSave(c, st)
  \/ \E c \in DOMAIN corrections, S \in SUBSET (DOMAIN items) : HypothesesSet(c, S)
  \/ \E c \in DOMAIN corrections, i \in DOMAIN items, raw \in RawScores, chk \in BOOLEAN :
       AddHypothesis(c, i, raw, chk)

Spec == Init /\ [][Next]_vars

InitNormalize ==
  /\ items = << >>
  /\ corrections = << >>
  /\ last = Idle
  /\ first = NoFirst
  /\ calls = NoCalls
  /\ calc \in {[stage |-> "input", x |-> x, once |-> 0, twice |-> 0] : x \in NormInputs}

NextNormalize ==
  \/ NormalizeOnce
  \/ NormalizeTwice

SpecNormalize == InitNormalize /\ [][NextNormalize]_vars

\* The stores the two invocations can start on: any scores, hypothesis set
\* and status, item 1 approved or not; each invocation gets a list of at most
\* one stored item, loaded before either starts.
RaceStores ==
  {[items |-> [i \in ItemIds |->
                 [value |-> ItemValueOf(i), score |-> sc[i],
                  approved |-> (i = 1 /\ ap), suggested_by_reviewer |-> TRUE]],
    corrections |-> [c \in CorrIds |->
                       [subject_value |-> RaceKey, scope_id |-> 0, status |-> st,
                        hypotheses |-> hs, updated_at |-> 1]]] :
     sc \in [ItemIds -> ScoreSet], ap \in BOOLEAN, st \in Statuses, hs \in SUBSET ItemIds}

InitRace ==
  /\ \E s \in RaceStores :
       /\ items = s.items
       /\ corrections = s.corrections
       /\ \E HA, HB \in SeqsUpTo({Loaded(s.items, i) : i \in ItemIds}, 1) :
            calls = [start |-> s, overlap |-> FALSE,
                     of |-> [p \in CallIds |->
                               Local("start", IF p = 1 THEN HA ELSE HB, STATUS_PENDING, << >>)]]
  /\ last = Idle
  /\ first = NoFirst
  /\ calc = NoCalc

NextRace ==
  \E p \in CallIds :
    \/ Lookup(p)
    \/ ApprovedRead(p)
    \/ InvalidRead(p)
    \/ InvalidSave(p)
    \/ AddStep(p)
    \/ SaveStep(p)
    \/ PruneRead(p)
    \/ RemoveStep(p)

SpecRace == InitRace /\ [][NextRace]_vars

\* The models' own methods, called directly and through apply_correction,
\* on a store of MaxModelItems items and one correction; scores can be NULL.
InitModels ==
  /\ items = [i \in 1..MaxModelItems |->
                [value |-> ItemValueOf(i), score |-> 10 * MaxTenth,
                 approved |-> FALSE, suggested_by_reviewer |-> TRUE]]
  /\ corrections = [c \in CorrIds |->
                      [subject_value |-> "Math", scope_id |-> 0, status |-> STATUS_PENDING,
                       hypotheses |-> {}, updated_at |-> 1]]
  /\ last = Idle
  /\ first = NoFirst
  /\ calls = NoCalls
  /\ calc = NoCalc

NextModels ==
  \/ \E i \in DOMAIN items, raw \in SaveScores, approved \in BOOLEAN, flag \in BOOLEAN :
       ItemSaveCall(i, raw, approved, flag)
  \/ \E c \in DOMAIN corrections \cup {NoCorr}, i \in DOMAIN items, raw \in SaveScores,
        flag \in BOOLEAN, chk \in BOOLEAN :
       AddHypothesisCall(c, i, raw, flag, chk)
  \/ \E c \in DOMAIN corrections : GetOptimalHypothesis(c)
  \/ ApplyCorrection
  \/ \E c \in DOMAIN corrections, st \in Statuses : CorrectionSave(c, st)
  \/ Done

SpecModels == InitModels /\ [][NextModels]_vars

\* An item with any set of ContextElement rows, any of them important, and a
\* caller's other_context.
InitContext ==
  /\ items = << >>
  /\ corrections = << >>
  /\ last = Idle
  /\ first = NoFirst
  /\ calls = NoCalls
  /\ \E tags \in SUBSET RowTags, important \in [RowTags -> BOOLEAN],
        other_context \in SUBSET OtherTags, check_important_only \in BOOLEAN :
       calc = [stage |-> "context",
               context |-> {[key |-> t[1], value |-> t[2], important |-> important[t]] : t \in tags},
               other_context |-> other_context,
               check_important_only |-> check_important_only,
               result |-> Fraction(0, 1)]

NextContext == MatchesContext

SpecContext == InitContext /\ [][NextContext]_vars

\* The same system with callers that repeat a call.
NextRepeat ==
  \/ Next
  \/ RepeatApplyCorrection

SpecRepeat == Init /\ [][NextRepeat]_vars

\* The store under the operations that go through the models' own methods:
\* apply_correction with persisted hypotheses, Item.save, Correction.save and
\* the checked add_hypothesis; no direct edit of the hypothesis rows.
NextStore ==
  \/ ApplyCorrectionPersisted
  \/ Done
  \/ \E i \in DOMAIN items, raw \in RawScores, approved \in BOOLEAN :
       ItemSave(i, raw, approved)
  \/ \E c \in DOMAIN corrections, st \in Statuses : CorrectionSave(c, st)
  \/ \E c \in DOMAIN corrections, i \in DOMAIN items, raw \in RawScores :
       AddHypothesis(c, i, raw, TRUE)

SpecStore == Init /\ [][NextStore]_vars

\* ========================================================================
\* Properties of apply_correction, stated on the record of the last call.

Called == last.op = "apply_correction"
Returned == Called /\ last.ret.kind # "raise"
ArgH == last.hypotheses
ArgPks == {ArgH[j].pk : j \in 1..Len(ArgH)} \ {NoPk}
\* The call returned and had selected a correction whose status was st.
OnStatus(st) == Returned /\ last.correction # NoCorr /\ last.pre.status = st
HypsNow == corrections[last.correction].hypotheses
StatusNow == corrections[last.correction].status
ScoresOf(S) == {items[h].score : h \in S}
WithScore(S, x) == {k \in S : items[k].score = x}

\* The APPROVED branch writes no Item, so the stored flags and scores of the
\* hypotheses are those the call saw.
PreApproved == {h \in last.pre.hypotheses : items[h].approved}
PreApprovedScore == CHOOSE x \in ScoresOf(PreApproved) : \A y \in ScoresOf(PreApproved) : y <= x
BetterIdx == {j \in 1..Len(ArgH) : ArgH[j].score > PreApprovedScore}
BetterPks == {ArgH[j].pk : j \in BetterIdx}
ReturnsApproved ==
  /\ last.ret.kind = "db"
  /\ last.ret.pk \in PreApproved
  /\ last.ret.score = PreApprovedScore

\* C1 as claimed: APPROVED correction with an approved hypothesis of score s
\* and an input hypothesis of score above s: after the call the status is
\* PENDING, every such input hypothesis is in the hypothesis set, and the
\* approved hypothesis is returned.
C1_Original ==
  (OnStatus(STATUS_APPROVED) /\ PreApproved # {} /\ BetterIdx # {}) =>
    /\ StatusNow = STATUS_PENDING
    /\ BetterPks \subseteq HypsNow
    /\ ReturnsApproved

\* C1 amended: APPROVED correction with an approved hypothesis of score s and
\* an input hypothesis of score above s: after the call the status is
\* PENDING, the approved hypothesis is returned, and for every such input
\* hypothesis the hypothesis set holds exactly one hypothesis of its score,
\* the input itself when no other previous or better input hypothesis has
\* that score (the save prunes score duplicates).
C1_BetterAttachedUpToPruning ==
  (OnStatus(STATUS_APPROVED) /\ PreApproved # {} /\ BetterIdx # {}) =>
    /\ StatusNow = STATUS_PENDING
    /\ ReturnsApproved
    /\ \A h \in BetterPks :
         /\ Cardinality(WithScore(HypsNow, items[h].score)) = 1
         /\ WithScore(last.pre.hypotheses \cup BetterPks, items[h].score) = {h} => h \in HypsNow

\* A better input hypothesis that the save pruned again.
C1_Witness ==
  /\ OnStatus(STATUS_APPROVED) /\ PreApproved # {} /\ BetterIdx # {}
  /\ \E h \in BetterPks : h \notin HypsNow
  /\ \E h \in BetterPks : h \in HypsNow /\ h \notin last.pre.hypotheses

\* C2: APPROVED correction with an approved hypothesis of score s and no
\* input hypothesis of score above s: the status stays APPROVED, the
\* hypothesis set and updated_at are as before, the approved hypothesis is
\* returned.
C2_NoBetterLeavesApproved ==
  (Called /\ last.correction # NoCorr /\ last.pre.status = STATUS_APPROVED
     /\ PreApproved # {} /\ BetterIdx = {}) =>
    /\ StatusNow = STATUS_APPROVED
    /\ HypsNow = last.pre.hypotheses
    /\ last.post_updated_at = last.pre.updated_at
    /\ ReturnsApproved

\* An input of exactly the approved score, and an unsaved one, left aside.
C2_Witness ==
  /\ OnStatus(STATUS_APPROVED) /\ PreApproved # {} /\ BetterIdx = {}
  /\ Len(ArgH) = MaxHyps
  /\ \E j \in 1..Len(ArgH) : ArgH[j].score = PreApprovedScore /\ ArgH[j].pk \notin HypsNow
  /\ \E j \in 1..Len(ArgH) : ArgH[j].pk = NoPk

C4_Original ==
  OnStatus(STATUS_PENDING) =>
    /\ StatusNow = STATUS_PENDING
    /\ last.pre.hypotheses \subseteq HypsNow
    /\ ArgPks \subseteq HypsNow

\* C4 amended: PENDING correction: after the call the status is PENDING and
\* the hypothesis set is a subset of the previous hypotheses and H that holds
\* exactly one hypothesis for each score found among them: a previous or
\* input hypothesis is missing only when another one of its score was kept.
C4_PendingKeepsOnePerScore ==
  OnStatus(STATUS_PENDING) =>
    /\ StatusNow = STATUS_PENDING
    /\ HypsNow \subseteq last.pre.hypotheses \cup ArgPks
    /\ \A h \in last.pre.hypotheses \cup ArgPks :
         /\ Cardinality(WithScore(HypsNow, items[h].score)) = 1
         /\ WithScore(last.pre.hypotheses \cup ArgPks, items[h].score) = {h} => h \in HypsNow

\* A previous hypothesis that the call pruned in favour of an input one.
C4_Witness ==
  /\ OnStatus(STATUS_PENDING)
  /\ \E h \in last.pre.hypotheses : h \notin HypsNow
  /\ \E h \in ArgPks : h \in HypsNow /\ h \notin last.pre.hypotheses

C6_InvalidResets ==
  OnStatus(STATUS_INVALID) =>
    /\ \A h \in last.pre.hypotheses : items[h].score = 0 /\ ~items[h].approved
    /\ StatusNow = STATUS_PENDING

\* An input object loaded before the call still carries the score that the
\* call has reset in the store.
C6_Witness ==
  /\ OnStatus(STATUS_INVALID)
  /\ \E j \in 1..Len(ArgH) :
       /\ ArgH[j].pk \in last.pre.hypotheses
       /\ ArgH[j].score > 0
       /\ items[ArgH[j].pk].score = 0

\* C7: INVALID correction: the call returns a maximum-score item of the input
\* list (not of the stored set) when the list is non-empty, the subject when
\* it is empty.
C7_InvalidReturnsInputMax ==
  OnStatus(STATUS_INVALID) =>
    /\ Len(ArgH) = 0 => last.ret.kind = "subject" /\ last.ret.value = last.subject_value
    /\ Len(ArgH) > 0 =>
         /\ last.ret.kind = "input"
         /\ last.ret.idx \in 1..Len(ArgH)
         /\ last.ret.pk = ArgH[last.ret.idx].pk
         /\ last.ret.score = ArgH[last.ret.idx].score
         /\ \A j \in 1..Len(ArgH) : ArgH[j].score <= last.ret.score

\* The returned input is not the best of the stored set.
C7_Witness ==
  /\ OnStatus(STATUS_INVALID)
  /\ last.ret.kind = "input"
  /\ Len(ArgH) = MaxHyps
  /\ \E g \in HypsNow : items[g].score > items[last.ret.pk].score

\* C8 as claimed: INVALID correction: after the call every item of H is in
\* the hypothesis set.
C8_Original ==
  OnStatus(STATUS_INVALID) => ArgPks \subseteq HypsNow

\* C8 amended: INVALID correction: after the call the hypothesis set holds,
\* for every item of H, exactly one hypothesis with that item's stored score,
\* the item itself when no other previous or input hypothesis has that
\* stored score after the reset (the save prunes score duplicates).
C8_InvalidAttachesUpToPruning ==
  OnStatus(STATUS_INVALID) =>
    /\ HypsNow \subseteq last.pre.hypotheses \cup ArgPks
    /\ \A h \in ArgPks :
         /\ Cardinality(WithScore(HypsNow, items[h].score)) = 1
         /\ WithScore(last.pre.hypotheses \cup ArgPks, items[h].score) = {h} => h \in HypsNow

\* One input hypothesis attached, another one pruned.
C8_Witness ==
  /\ OnStatus(STATUS_INVALID)
  /\ \E h \in ArgPks : h \notin HypsNow
  /\ \E h \in ArgPks : h \in HypsNow /\ h \notin last.pre.hypotheses

\* No stored correction has the key of the last call.
NoCorrectionForKey ==
  \A c \in DOMAIN corrections :
    ~(corrections[c].subject_value = last.subject_value /\ corrections[c].scope_id = last.scope_id)

\* C9: no correction for the key: the call returns an element of the input
\* list whose score is at least that of every other element, the subject
\* itself when the list is empty.
C9_NoCorrectionReturnsMax ==
  (Called /\ NoCorrectionForKey) =>
    /\ Len(ArgH) = 0 => last.ret.kind = "subject" /\ last.ret.value = last.subject_value
    /\ Len(ArgH) > 0 =>
         /\ last.ret.kind = "input"
         /\ last.ret.idx \in 1..Len(ArgH)
         /\ last.ret.pk = ArgH[last.ret.idx].pk
         /\ last.ret.value = ArgH[last.ret.idx].value
         /\ last.ret.score = ArgH[last.ret.idx].score
         /\ \A j \in 1..Len(ArgH) : ArgH[j].score <= last.ret.score

\* Two inputs tied at the maximum, the second one lower than the first.
C9_Witness ==
  /\ Called /\ NoCorrectionForKey
  /\ Len(ArgH) = MaxHyps
  /\ last.ret.kind = "input"
  /\ \E j \in 1..Len(ArgH) : ArgH[j].score < last.ret.score
  /\ last.subject_value = "Math"

\* C10: no correction for the key: the call leaves the store unchanged and
\* does not raise, whether or not the hypotheses are persisted.
C10_NoCorrectionNoEffect ==
  [][(Called' /\ last # last' /\ NoCorrectionForKey') =>
       /\ items' = items
       /\ corrections' = corrections
       /\ last'.ret.kind # "raise"]_vars

\* A call without correction for its key that got an unsaved and a stored
\* hypothesis.
C10_Witness ==
  /\ Called /\ NoCorrectionForKey
  /\ \E j \in 1..Len(ArgH) : ArgH[j].pk = NoPk
  /\ \E j \in 1..Len(ArgH) : ArgH[j].pk # NoPk
  /\ \E c \in DOMAIN corrections : corrections[c].hypotheses # {}

\* ========================================================================
\* Properties of get_approved_correction_for_subject.

Resolved == last.op = "get_approved_correction_for_subject"

\* C11: a call of get_approved_correction_for_subject leaves the store as it
\* was: items, corrections, statuses, hypothesis sets and updated_at are the
\* same before and after the call, whatever calls came before it.
C11_ResolverReadOnly ==
  [][(Resolved' /\ last' # last) =>
       /\ items' = items
       /\ corrections' = corrections
       /\ last'.post_updated_at = last'.pre.updated_at]_vars

\* A resolver call that found an APPROVED correction whose hypothesis set
\* holds two hypotheses of one score (a save would prune one of them).
C11_Witness ==
  /\ Resolved
  /\ last.correction # NoCorr
  /\ last.ret.value # last.subject_value
  /\ \E g, h \in HypsNow : g # h /\ items[g].score = items[h].score

\* The approved hypotheses of the APPROVED corrections with the key of the
\* last call.
ApprovedForKey ==
  {h \in DOMAIN items :
     /\ items[h].approved
     /\ \E c \in DOMAIN corrections :
          /\ corrections[c].subject_value = last.subject_value
          /\ corrections[c].scope_id = last.scope_id
          /\ corrections[c].status = STATUS_APPROVED
          /\ h \in corrections[c].hypotheses}

\* C12: get_approved_correction_for_subject(v, s) returns the value of an
\* approved hypothesis of the APPROVED correction with subject value v and
\* scope s when it has one, and v itself in every other case.
C12_ResolverValue ==
  Resolved =>
    /\ last.ret.kind = "value"
    /\ ApprovedForKey # {} => last.ret.value \in {items[h].value : h \in ApprovedForKey}
    /\ ApprovedForKey = {} => last.ret.value = last.subject_value

\* The correction has approved hypotheses and a hypothesis of higher score
\* that is not approved; the resolver answered with an approved one.
C12_Witness ==
  /\ Resolved
  /\ last.ret.value # last.subject_value
  /\ \E a, h \in HypsNow :
       items[a].value = last.ret.value /\ ~items[h].approved /\ items[h].score > items[a].score

\* ========================================================================
\* Properties of a repeated apply_correction call: `first` is the call made
\* first, `last` the second one; last.pre is the correction as the first
\* call left it.

Repeated == first # NoFirst
BothReturned == Repeated /\ first.ret.kind # "raise" /\ last.ret.kind # "raise"
\* The first call left the status of its correction as it found it.
StatusKept == last.correction # NoCorr /\ first.pre.status = last.pre.status
\* Another input hypothesis has the stored score of the item the first call
\* returned.
InputTiesWithFirst ==
  \E j \in 1..Len(ArgH) :
    /\ ArgH[j].pk # NoPk
    /\ ArgH[j].pk # first.ret.pk
    /\ items[ArgH[j].pk].score = first.ret.score

\* C13 as claimed: the second call returns an item with the same value as
\* the first call.
C13_Original ==
  BothReturned => last.ret.value = first.ret.value

\* C13 amended: when the first call finds no correction for the key, or
\* leaves the status of the correction as it was (PENDING, or APPROVED
\* without a better input), the second call returns an item of the same
\* score; it is the same item unless the correction is PENDING and another
\* input hypothesis has the same stored score.
C13_SameDecisionWhenStatusKept ==
  BothReturned =>
    /\ last.correction = NoCorr => last.ret = first.ret
    /\ (StatusKept /\ last.pre.status = STATUS_APPROVED) => last.ret = first.ret
    /\ (StatusKept /\ last.pre.status = STATUS_PENDING) =>
         /\ last.ret.kind = first.ret.kind
         /\ last.ret.score = first.ret.score
         /\ ~InputTiesWithFirst => last.ret = first.ret

\* A PENDING correction, a list of two hypotheses that were not attached, and
\* the second call returns the item the first call returned.
C13_Witness ==
  /\ BothReturned /\ StatusKept /\ last.pre.status = STATUS_PENDING
  /\ Len(ArgH) = MaxHyps
  /\ ArgPks \cap first.pre.hypotheses = {}
  /\ first.pre.hypotheses # {}
  /\ last.ret.kind = "db" /\ last.ret = first.ret /\ last.ret.pk \in ArgPks

\* C14: APPROVED or PENDING correction, empty hypothesis list: the second
\* call returns the item the first call returned, and leaves the status and
\* the hypothesis set as the first call left them.
C14_EmptyListIdempotent ==
  (Repeated /\ Len(ArgH) = 0 /\ last.correction # NoCorr
     /\ first.pre.status \in {STATUS_APPROVED, STATUS_PENDING}) =>
    /\ last.ret = first.ret
    /\ StatusNow = last.pre.status
    /\ HypsNow = last.pre.hypotheses

\* A PENDING correction whose hypothesis set the first call pruned.
C14_Witness ==
  /\ Repeated /\ Len(ArgH) = 0 /\ last.correction # NoCorr
  /\ first.pre.status = STATUS_PENDING
  /\ first.pre.hypotheses # last.pre.hypotheses
  /\ last.ret.kind = "db"
  /\ \E h \in HypsNow : items[h].score < last.ret.score

\* The second call got a non-empty list of persisted hypotheses for a
\* correction that was PENDING before the first call.
PendingRepeated ==
  /\ BothReturned /\ last.correction # NoCorr
  /\ first.pre.status = STATUS_PENDING
  /\ Len(ArgH) > 0

\* C15 as claimed: after the second call the status and the hypothesis set
\* are the same as after the first call.
C15_Original ==
  PendingRepeated =>
    /\ StatusNow = last.pre.status
    /\ HypsNow = last.pre.hypotheses

\* C15 amended: after the second call the status is PENDING as after the
\* first, the hypothesis set holds one hypothesis for each score it held
\* after the first call and no other, and it is the same set when no input
\* hypothesis shares its stored score with another input or attached
\* hypothesis.
C15_RepeatKeepsScores ==
  PendingRepeated =>
    /\ StatusNow = STATUS_PENDING /\ last.pre.status = STATUS_PENDING
    /\ ScoresOf(HypsNow) = ScoresOf(last.pre.hypotheses)
    /\ \A h \in HypsNow : WithScore(HypsNow, items[h].score) = {h}
    /\ (\A h \in ArgPks : WithScore(last.pre.hypotheses \cup ArgPks, items[h].score) = {h})
         => HypsNow = last.pre.hypotheses

\* The second call changed the hypothesis set: it kept the other one of two
\* hypotheses with the same score, next to a hypothesis that stayed.
C15_Witness ==
  /\ PendingRepeated
  /\ HypsNow # last.pre.hypotheses
  /\ HypsNow \cap last.pre.hypotheses # {}

\* ========================================================================
\* Score uniqueness within a correction.

UniqueScores(c) ==
  \A g, h \in corrections[c].hypotheses :
    g # h => normalize_score(items[g].score) # normalize_score(items[h].score)

\* The step is a Correction.save: the admin's, or the one of an
\* apply_correction call (the last write of every branch that saves).
SavedBy(c) ==
  \/ \E st \in Statuses : CorrectionSave(c, st)
  \/ /\ Called' /\ last' # last
     /\ last'.correction = c
     /\ last'.post_updated_at # last'.pre.updated_at

\* C16: right after a Correction.save no two hypotheses of the saved
\* correction have the same normalized score (the hypothesis set is a set of
\* rows unique per item, so no identity appears twice).
C16_SaveLeavesUniqueScores ==
  [][\A c \in DOMAIN corrections : SavedBy(c) => UniqueScores(c)']_vars

\* A save that pruned a hypothesis and kept two of different scores.
C16_Witness ==
  /\ Returned /\ last.correction # NoCorr
  /\ last.post_updated_at # last.pre.updated_at
  /\ HypsNow # last.pre.hypotheses \cup ArgPks
  /\ Cardinality(HypsNow) >= 2

\* C17 as claimed: at every operation boundary no correction holds two
\* hypotheses with the same normalized score.
C17_Original ==
  \A c \in DOMAIN corrections : UniqueScores(c)

\* ========================================================================
\* Properties of normalize_score.

\* C19: normalize_score(normalize_score(x)) = normalize_score(x), also for
\* x below 0.0 and above 1.0.
C19_NormalizeIdempotent ==
  calc.stage = "twice" => calc.twice = calc.once

\* An argument above 1.0 that lies half-way between two steps, normalized
\* twice.
C19_Witness ==
  /\ calc.stage = "twice"
  /\ calc.x > 100
  /\ calc.x % 10 = 5

\* C20: the result is one of 0.0, 0.1, ..., 1.0; it is 0.0 for arguments
\* below 0.0 and 1.0 for arguments above 1.0; for an argument within the
\* range it is the nearest step, the upper one when the argument lies
\* half-way between two steps.
C20_NormalizeRoundsAndClamps ==
  calc.stage \in {"once", "twice"} =>
    /\ calc.once \in {10 * t : t \in 0..10}
    /\ calc.x < 0 => calc.once = 0
    /\ calc.x > 100 => calc.once = 100
    /\ (calc.x >= 0 /\ calc.x <= 100) =>
         /\ calc.once - 5 <= calc.x
         /\ calc.x < calc.once + 5

\* An argument within the range, half-way between two steps, rounded up.
C20_Witness ==
  /\ calc.stage = "once"
  /\ calc.x > 0 /\ calc.x < 100
  /\ calc.x % 10 = 5
  /\ calc.once = calc.x + 5

\* ========================================================================
\* Properties of concurrent apply_correction invocations.

\* The stores a whole apply_correction call with the list H can leave when
\* it runs alone on the store s.
AloneFrom(s, H) ==
  {[items |-> o.items, corrections |-> Renumber(o.corrections)] :
     o \in ApplyOutcomes(s.corrections, s.items, RaceCorr, RaceKey, H)}

\* The stores the two invocations can leave when one runs after the other,
\* in either order.
SequentialStores ==
  LET HA == calls.of[1].H
      HB == calls.of[2].H
  IN UNION {AloneFrom(s, HB) : s \in AloneFrom(calls.start, HA)}
       \cup UNION {AloneFrom(s, HA) : s \in AloneFrom(calls.start, HB)}

BothDone == \A p \in CallIds : calls.of[p].pc = "done"
StoreNow == [items |-> items, corrections |-> corrections]

\* C18: two invocations for the same key that do not overlap leave a store
\* that one of the two sequential orders leaves; invocations that overlap
\* can leave a store that neither order leaves (C18_Witness).
C18_OnlyOverlapRaces ==
  (BothDone /\ ~calls.overlap) => StoreNow \in SequentialStores

\* Both invocations are done and the status, the hypothesis set or a score
\* differs from what either sequential order leaves.
C18_Witness ==
  /\ BothDone
  /\ calls.overlap
  /\ StoreNow \notin SequentialStores

\* ========================================================================
\* Properties of the models' own methods, stated on the record of the last
\* call (SpecModels).

Saved == last.op = "save"
AddCalled == last.op = "add_hypothesis"
OptimalCalled == last.op = "get_optimal_hypothesis"
\* The scores 0.0, 0.1, ..., 1.0.
Grid == {10 * t : t \in 0..10}

\* C21: after any sequence of Item saves, add_hypothesis calls and
\* apply_correction calls, the stored score of every item is NULL or one of
\* 0.0, 0.1, ..., 1.0.
C21_StoredScoresOnGrid ==
  \A i \in DOMAIN items : items[i].score = NullScore \/ items[i].score \in Grid

\* The INVALID branch has reset a hypothesis that was saved with a score
\* above 1.0 (stored as 1.0), next to an item whose score is NULL.
C21_Witness ==
  /\ OnStatus(STATUS_INVALID)
  /\ \E j \in 1..Len(ArgH) :
       /\ ArgH[j].pk \in last.pre.hypotheses
       /\ ArgH[j].score = 100
       /\ items[ArgH[j].pk].score = 0
  /\ \E i \in DOMAIN items : items[i].score = NullScore

\* C22: every stored item carries suggested_by_reviewer = true, whatever the
\* caller of save, of add_hypothesis or of apply_correction had assigned.
C22_SavedItemsCarryFlag ==
  \A i \in DOMAIN items : items[i].suggested_by_reviewer

\* A save of an object whose flag the caller had set to false wrote the row.
C22_Witness ==
  /\ Saved
  /\ ~last.item.suggested_by_reviewer
  /\ last.ret.kind # "raise"
  /\ items[last.pk] # last.pre_items[last.pk]
  /\ items[last.pk].suggested_by_reviewer

\* The score the caller assigned fails one of the checks of Item.clean.
FailsClean(score) == score # NullScore /\ ~CleanOk(score)

\* C23 as claimed: saving an item whose score has more than one fractional
\* digit, is not a multiple of 0.1 or lies outside [0.0, 1.0] raises
\* ValidationError and leaves the store as it was.
C23_Original ==
  (Saved /\ FailsClean(last.item.score)) =>
    /\ last.ret.kind = "raise"
    /\ items = last.pre_items

\* The hypotheses attached to the correction of the call before the call.
AttachedBefore ==
  IF last.correction = NoCorr THEN {} ELSE last.pre_corrections[last.correction].hypotheses
\* The normalized score of the incoming item was that of another item, an
\* attached hypothesis, when the call started.
ScoreTaken ==
  /\ last.item.score # NullScore
  /\ \E h \in AttachedBefore \ {last.pk} :
       /\ last.pre_items[h].score # NullScore
       /\ normalize_score(last.pre_items[h].score) = normalize_score(last.item.score)
Rejected ==
  /\ last.ret = RaiseRet("ValidationError")
  /\ items = last.pre_items
  /\ corrections = last.pre_corrections

\* C24 as claimed: add_hypothesis raises ValidationError when the correction
\* was never saved, and with check_uniqueness when the normalized score of the
\* item is that of an attached hypothesis (another item); the item is not
\* saved, and the hypothesis set is unchanged.
C24_Original ==
  (AddCalled /\ (last.correction = NoCorr \/ (last.check_uniqueness /\ ScoreTaken))) => Rejected

\* C24 amended: add_hypothesis raises ValidationError when the correction was
\* never saved, and with check_uniqueness when the item is not attached yet
\* and its normalized score is that of an attached hypothesis; the item is not
\* saved, and the hypothesis set is unchanged.
C24_RejectsUnsavedAndTaken ==
  (AddCalled /\ (\/ last.correction = NoCorr
                 \/ /\ last.check_uniqueness
                    /\ last.pk \notin AttachedBefore
                    /\ ScoreTaken)) => Rejected

\* The checked path rejected an item whose assigned score 0.14 normalizes to
\* the score of an attached hypothesis.
C24_Witness ==
  /\ AddCalled /\ last.correction # NoCorr
  /\ last.check_uniqueness
  /\ last.pk \notin AttachedBefore
  /\ last.item.score = 14
  /\ last.item.score # last.pre_items[last.pk].score
  /\ ScoreTaken
  /\ last.ret.kind = "raise"

\* C28: add_hypothesis for an item that is attached already raises nothing,
\* also with check_uniqueness, writes no item and leaves the hypothesis set
\* as it was.
C28_AttachedIsNoOp ==
  (AddCalled /\ last.pk \in AttachedBefore) =>
    /\ last.ret = ReturnsNone
    /\ items = last.pre_items
    /\ corrections = last.pre_corrections

\* The checked path got an attached item whose newly assigned score is that
\* of another attached hypothesis.
C28_Witness ==
  /\ AddCalled /\ last.pk \in AttachedBefore
  /\ last.check_uniqueness
  /\ last.item.score # NullScore
  /\ normalize_score(last.item.score) # last.pre_items[last.pk].score
  /\ ScoreTaken
  /\ last.ret.kind # "raise"

\* The correction get_optimal_hypothesis was called on; the call writes
\* nothing, so the store is the one it read.
OptHyps == corrections[last.correction].hypotheses
OptStatus == corrections[last.correction].status
OptApproved == {h \in OptHyps : items[h].approved}
OptNonNull == {h \in OptHyps : items[h].score # NullScore}
ReturnsSubject == last.ret = SubjectRet(corrections[last.correction].subject_value)

\* C25: get_optimal_hypothesis returns an approved hypothesis when the status
\* is APPROVED and one exists; the subject when the status is INVALID; in the
\* remaining cases a hypothesis of maximum non-null score, or the subject when
\* no hypothesis has a non-null score.
C25_OptimalHypothesis ==
  OptimalCalled =>
    IF OptStatus = STATUS_APPROVED /\ OptApproved # {}
    THEN last.ret.kind = "db" /\ last.ret.pk \in OptApproved
    ELSE IF OptStatus = STATUS_INVALID THEN ReturnsSubject
    ELSE IF OptNonNull = {} THEN ReturnsSubject
    ELSE /\ last.ret.kind = "db"
         /\ last.ret.pk \in OptNonNull
         /\ \A g \in OptNonNull : items[g].score <= items[last.ret.pk].score

\* An APPROVED correction without approved hypothesis, with a hypothesis of
\* NULL score and one of score 0.0: the latter is returned.
C25_Witness ==
  /\ OptimalCalled
  /\ OptStatus = STATUS_APPROVED /\ OptApproved = {}
  /\ \E h \in OptHyps : items[h].score = NullScore
  /\ last.ret.kind = "db" /\ items[last.ret.pk].score = 0

\* ========================================================================
\* Further properties of apply_correction (Spec).

\* The call handed back an Item: the subject, an input object or a stored
\* hypothesis.
ReturnedItem == Called /\ last.ret.kind \in {"subject", "input", "db"}

\* C26 as claimed: a correction exists for the key and the input list holds
\* items that were never saved: the call completes without raising and
\* returns an item.
C26_Original ==
  (Called /\ last.correction # NoCorr /\ \E j \in 1..Len(ArgH) : ArgH[j].pk = NoPk)
    => ReturnedItem

\* C29: an apply_correction call leaves the status of the correction as it
\* was or takes it from APPROVED or INVALID to PENDING; a PENDING correction
\* stays PENDING.
C29_StatusOnlyToPending ==
  (Called /\ last.correction # NoCorr) =>
    \/ StatusNow = last.pre.status
    \/ last.pre.status \in {STATUS_APPROVED, STATUS_INVALID} /\ StatusNow = STATUS_PENDING

\* An INVALID correction became PENDING in a call with an empty list.
C29_Witness ==
  /\ Called /\ last.correction # NoCorr
  /\ last.pre.status = STATUS_INVALID
  /\ StatusNow = STATUS_PENDING
  /\ Len(ArgH) = 0
  /\ last.pre.hypotheses # {}

\* C30 as claimed: a correction exists for the key: the returned item is the
\* subject or a member of the hypothesis set at the moment the call returns.
C30_Original ==
  (Returned /\ last.correction # NoCorr) =>
    \/ last.ret.kind = "subject"
    \/ last.ret.pk \in HypsNow

\* C30 amended: a correction exists for the key: the returned item is the
\* subject, or a previous or input hypothesis that is a member of the
\* hypothesis set when the call returns or that the save detached because the
\* set holds another hypothesis of its stored score; under PENDING it is
\* always the subject or a member.
C30_ReturnsMemberUpToPruning ==
  (Returned /\ last.correction # NoCorr) =>
    \/ last.ret.kind = "subject"
    \/ /\ last.ret.pk \in last.pre.hypotheses \cup ArgPks
       /\ \/ last.ret.pk \in HypsNow
          \/ /\ last.pre.status # STATUS_PENDING
             /\ \E g \in HypsNow : items[g].score = items[last.ret.pk].score

\* The approved hypothesis was returned after the save of the call had
\* detached it in favour of another hypothesis of its score.
C30_Witness ==
  /\ OnStatus(STATUS_APPROVED)
  /\ last.ret.kind = "db"
  /\ items[last.ret.pk].approved
  /\ last.ret.pk \notin HypsNow
  /\ \E g \in HypsNow : items[g].score = items[last.ret.pk].score

\* ========================================================================
\* Properties of matches_context (SpecContext).

\* The item's tags that count: all of them, or the important ones.
Mine ==
  {t \in OtherTags :
     \E ctx \in calc.context :
       /\ ctx.key = t[1] /\ ctx.value = t[2]
       /\ calc.check_important_only => ctx.important}

\* C27: matches_context returns |mine \cap other| / |mine| for the item's
\* tags mine (the important ones with check_important_only); the result lies
\* in [0, 1] and is 0.0 when mine is empty.
C27_MatchesContextFraction ==
  calc.stage = "matched" =>
    /\ calc.result.den > 0
    /\ 0 <= calc.result.num /\ calc.result.num <= calc.result.den
    /\ Mine = {} => calc.result.num = 0
    /\ Mine # {} =>
         calc.result.num * Cardinality(Mine)
           = Cardinality(Mine \cap calc.other_context) * calc.result.den

\* With check_important_only, one of two important tags is in other_context,
\* and so is a tag of the item that is not important: the result is 1/2.
C27_Witness ==
  /\ calc.stage = "matched"
  /\ calc.check_important_only
  /\ Cardinality(Mine) = 2
  /\ calc.result.num = 1 /\ calc.result.den = 2
  /\ \E ctx \in calc.context : ~ctx.important /\ <<ctx.key, ctx.value>> \in calc.other_context


\* ========================================================================
\* C33 as claimed: an INVALID correction, an empty list, the first call
\* returns the subject: the second call with the empty list returns the
\* subject again, none of the hypotheses the first call reset.
C33_Original ==
  (/\ BothReturned /\ last.correction # NoCorr
   /\ first.pre.status = STATUS_INVALID
   /\ Len(ArgH) = 0
   /\ first.ret.kind = "subject")
  => last.ret.kind = "subject"


\* ========================================================================
\* The APPROVED branch found a hypothesis to attach: an input hypothesis of
\* a score above the approved one's, or any input hypothesis when no
\* hypothesis is approved.
BetterInput == IF PreApproved = {} THEN Len(ArgH) > 0 ELSE BetterIdx # {}
Refreshed == last.post_updated_at > last.pre.updated_at

\* C37: a call that returns refreshes updated_at of the selected correction
\* when the correction was PENDING or INVALID (also with an empty list) and
\* when it was APPROVED and a better hypothesis was attached; an APPROVED
\* correction without a better hypothesis keeps its updated_at; no call,
\* returning or raising, lowers it.
C37_RefreshedByPersistingCalls ==
  (Called /\ last.correction # NoCorr) =>
    /\ last.post_updated_at >= last.pre.updated_at
    /\ (Returned /\ last.pre.status \in {STATUS_PENDING, STATUS_INVALID}) => Refreshed
    /\ (Returned /\ last.pre.status = STATUS_APPROVED /\ BetterInput) => Refreshed
    /\ (Returned /\ last.pre.status = STATUS_APPROVED /\ ~BetterInput) =>
         last.post_updated_at = last.pre.updated_at

\* An APPROVED correction with an approved hypothesis, a list without a
\* better hypothesis: updated_at is as it was.
C37_Witness ==
  /\ OnStatus(STATUS_APPROVED) /\ PreApproved # {} /\ Len(ArgH) > 0 /\ ~BetterInput
  /\ last.post_updated_at = last.pre.updated_at

\* A PENDING correction and an empty list: updated_at is refreshed.
C37_WitnessPending ==
  /\ OnStatus(STATUS_PENDING) /\ Len(ArgH) = 0 /\ Refreshed


\* ========================================================================
\* C38: a step that is an apply_correction call leaves the set of correction
\* identities as it was and every stored item stored, whatever the branch,
\* the input and the outcome.
C38_CreatesAndDeletesNothing ==
  [][(last = Idle /\ last'.op = "apply_correction") =>
       /\ DOMAIN corrections' = DOMAIN corrections
       /\ DOMAIN items \subseteq DOMAIN items']_vars

\* A call on an INVALID correction with hypotheses and a non-empty list has
\* reset items and saved the correction; every correction and item is still
\* stored.
C38_Witness ==
  /\ OnStatus(STATUS_INVALID) /\ last.pre.hypotheses # {} /\ Len(ArgH) > 0
  /\ \A h \in last.pre.hypotheses : items[h].score = 0
  /\ DOMAIN corrections = CorrIds /\ DOMAIN items = ItemIds


\* ========================================================================
\* Correction.save on its own: a stored correction with any hypothesis set
\* over MaxItems items whose scores are grid values or NULL, saved by the
\* admin with any status.

\* Correction.save() of the loaded correction c with its status set to st.
CorrectionSaveCall(c, st) ==
  /\ last = Idle
  /\ \E cs \in CorrectionSaved(corrections, c, st, items) : corrections' = Renumber(cs)
  /\ last' = ModelCall("Correction.save", c, NoPk, NoObj, FALSE, NoRet)
  /\ UNCHANGED <<items, first, calls, calc>>

InitPrune ==
  /\ \E score \in [ItemIds -> ScoreSet \cup {NullScore}] :
       items = [i \in ItemIds |->
                  [value |-> ItemValueOf(i), score |-> score[i], approved |-> FALSE,
                   suggested_by_reviewer |-> TRUE]]
  /\ corrections \in [CorrIds -> {[subject_value |-> "Math", scope_id |-> 0, status |-> st,
                                   hypotheses |-> S, updated_at |-> 1] :
                                     st \in Statuses, S \in SUBSET ItemIds}]
  /\ last = Idle
  /\ first = NoFirst
  /\ calls = NoCalls
  /\ calc = NoCalc

NextPrune ==
  \/ \E c \in DOMAIN corrections, st \in Statuses : CorrectionSaveCall(c, st)
  \/ Done

SpecPrune == InitPrune /\ [][NextPrune]_vars

CorrectionSaveCalled == last.op = "Correction.save"
HypsBeforeSave == last.pre_corrections[last.correction].hypotheses
HypsAfterSave == corrections[last.correction].hypotheses
NonNullScores(S) == ScoresOf(S) \ {NullScore}
MaxScoreOf(S) == CHOOSE x \in NonNullScores(S) : \A y \in NonNullScores(S) : y <= x

\* C36: after Correction.save the hypothesis set is a subset of the one
\* before; it holds every hypothesis whose score is NULL and, for each
\* non-null normalized score present before, exactly one hypothesis of that
\* score; the set of distinct scores and the maximum score are as before.
C36_PruningKeepsOnePerScore ==
  CorrectionSaveCalled =>
    /\ HypsAfterSave \subseteq HypsBeforeSave
    /\ \A h \in HypsBeforeSave : items[h].score = NullScore => h \in HypsAfterSave
    /\ \A x \in NonNullScores(HypsBeforeSave) :
         Cardinality({h \in HypsAfterSave : /\ items[h].score # NullScore
                                             /\ normalize_score(items[h].score) = x}) = 1
    /\ ScoresOf(HypsAfterSave) = ScoresOf(HypsBeforeSave)
    /\ NonNullScores(HypsBeforeSave) # {} =>
         MaxScoreOf(HypsAfterSave) = MaxScoreOf(HypsBeforeSave)

\* A save of a correction with two hypotheses of one score and one of score
\* NULL: one of the two is detached, the NULL one stays.
C36_Witness ==
  /\ CorrectionSaveCalled
  /\ Cardinality(HypsBeforeSave) = MaxItems
  /\ Cardinality(HypsAfterSave) = MaxItems - 1
  /\ \E h \in HypsAfterSave : items[h].score = NullScore


\* ========================================================================
\* The resolver called right after apply_correction, for the same key.

\* get_approved_correction_for_subject(subject.value, scope_id) called by the
\* caller of the apply_correction call recorded in `last`, before anything
\* else runs.  Both functions read the approved hypothesis with the same
\* statement, correction.hypotheses.filter(approved=True).first(): when the
\* first call wrote nothing, the resolver reads the row the first call read.
ResolveAfterApply ==
  /\ last.op = "apply_correction"
  /\ first = NoFirst
  /\ first' = [ret |-> last.ret, pre |-> last.pre, wrote |-> ~WroteNothing,
               hypotheses |-> last.hypotheses]
  /\ \E c \in IF FirstApproved(corrections, last.subject_value, last.scope_id) = {} THEN {NoCorr}
               ELSE FirstApproved(corrections, last.subject_value, last.scope_id) :
       \E o \in ResolveWith(corrections, items, last.subject_value, c) :
         /\ (/\ WroteNothing /\ c # NoCorr /\ c = last.correction
             /\ last.ret.kind = "db" /\ items[last.ret.pk].approved)
              => o.ret.value = last.ret.value
         /\ corrections' = Renumber(o.corrections)
         /\ items' = o.items
         /\ last' = CallRecord("get_approved_correction_for_subject", last.subject_value,
                               last.scope_id, << >>, c, PreOf(corrections, c),
                               IF c = NoCorr THEN 0 ELSE o.corrections[c].updated_at, o.ret)
  /\ UNCHANGED <<calls, calc>>

NextResolve ==
  \/ Next
  \/ ResolveAfterApply

SpecResolve == Init /\ [][NextResolve]_vars

\* The resolver has answered right after an apply_correction call that
\* selected an APPROVED correction and returned its approved hypothesis.
ResolvedAfterApproved ==
  /\ last.op = "get_approved_correction_for_subject"
  /\ first # NoFirst
  /\ first.pre.status = STATUS_APPROVED
  /\ first.ret.kind = "db"
  /\ first.ret.pk \in first.pre.hypotheses
  /\ items[first.ret.pk].approved
\* The list of the apply_correction call held a hypothesis of a score above
\* the approved one's.
FirstHadBetter ==
  \E j \in 1..Len(first.hypotheses) : first.hypotheses[j].score > first.ret.score

MaxPairCorrs == 2
MaxPairItems == 2
MaxPairHyps == 1

PairCorrs == 1..MaxPairCorrs
PairItems == 1..MaxPairItems

InitPair ==
  /\ \E score \in [PairItems -> ScoreSet], approved \in [PairItems -> BOOLEAN] :
       items = [i \in PairItems |->
                  [value |-> ItemValueOf(i), score |-> score[i], approved |-> approved[i],
                   suggested_by_reviewer |-> TRUE]]
  /\ \E s2 \in ScopeIds, st \in [PairCorrs -> Statuses],
        hy \in [PairCorrs -> SUBSET PairItems], q \in Perms(PairCorrs) :
       corrections = [c \in PairCorrs |->
                        [subject_value |-> "Math", scope_id |-> IF c = 1 THEN 0 ELSE s2,
                         status |-> st[c], hypotheses |-> hy[c],
                         updated_at |-> CHOOSE k \in 1..MaxPairCorrs : q[k] = c]]
  /\ last = Idle
  /\ first = NoFirst
  /\ calls = NoCalls
  /\ calc = NoCalc

\* One more call of apply_correction, right after the previous one, with
\* hypotheses loaded from the store; `first` keeps the key of the first call
\* of the sequence and the correction it selected.
ApplyCorrectionNext ==
  /\ last.op \in {"idle", "apply_correction"}
  /\ \E s \in ScopeIds, H \in SeqsUpTo({Loaded(items, i) : i \in DOMAIN items}, MaxPairHyps) :
       \E c \in IF Matching(corrections, "Math", s) = {} THEN {NoCorr}
                 ELSE FirstMatch(corrections, "Math", s) :
         \E o \in ApplyOutcomes(corrections, items, c, "Math", H) :
           LET call == CallRecord("apply_correction", "Math", s, H, c, PreOf(corrections, c),
                                  IF c = NoCorr THEN 0 ELSE o.corrections[c].updated_at, o.ret)
           IN /\ corrections' = Renumber(o.corrections)
              /\ items' = o.items
              /\ last' = call
              /\ first' = IF first = NoFirst
                          THEN [correction |-> c, subject_value |-> "Math", scope_id |-> s,
                                pre |-> PreOf(corrections, c)]
                          ELSE first
  /\ UNCHANGED <<calls, calc>>

NextPair == ApplyCorrectionNext

SpecPair == InitPair /\ [][NextPair]_vars


\* The corrections stored under the key of the call recorded in l.
SameKey(corrs, l) == Matching(corrs, l.subject_value, l.scope_id)
\* What get_approved_correction_for_subject(v, s) can return on a store.
ResolverValues(corrs, its, v, s) ==
  {o.ret.value :
     o \in UNION {ResolveWith(corrs, its, v, c) :
                    c \in IF FirstApproved(corrs, v, s) = {} THEN {NoCorr}
                          ELSE FirstApproved(corrs, v, s)}}

\* C32 as claimed: an apply_correction call for one key leaves the answer of
\* get_approved_correction_for_subject for every other key as it was.
C32_Original ==
  [][Called' =>
       \A v \in SubjectValues, s \in ScopeIds :
         <<v, s>> # <<last'.subject_value, last'.scope_id>> =>
           ResolverValues(corrections', items', v, s) = ResolverValues(corrections, items, v, s)]_vars

\* C34: the correction an apply_correction call selects is the most recently
\* updated one of its key, and every other correction of that key has the
\* status, the hypothesis set and the updated_at it had before the call.
C34_OnlyFirstMatchChanges ==
  [][(Called' /\ last'.correction # NoCorr) =>
       /\ last'.correction \in SameKey(corrections, last')
       /\ \A d \in SameKey(corrections, last') :
            /\ corrections[d].updated_at <= corrections[last'.correction].updated_at
            /\ d # last'.correction =>
                 /\ corrections'[d].status = corrections[d].status
                 /\ corrections'[d].hypotheses = corrections[d].hypotheses
                 /\ corrections'[d].updated_at = corrections[d].updated_at]_vars

\* Two corrections under the key of the call; the call changed the status
\* and the hypothesis set of the one it selected.
C34_Witness ==
  /\ Returned /\ last.correction # NoCorr
  /\ Cardinality(SameKey(corrections, last)) = MaxPairCorrs
  /\ StatusNow # last.pre.status
  /\ HypsNow # last.pre.hypotheses

\* A call of the sequence after the first one, for the key of the first call,
\* which had selected a correction.
LaterCallForFirstKey ==
  /\ Called /\ first # NoFirst
  /\ first.correction # NoCorr
  /\ last.subject_value = first.subject_value
  /\ last.scope_id = first.scope_id

\* C35: in a sequence of apply_correction calls every call for the key of
\* the first call selects the correction the first call selected.
C35_SameCorrectionSelected ==
  LaterCallForFirstKey => last.correction = first.correction

\* Two corrections under one key: the first call found the selected one
\* INVALID and saved it, a later call for the key finds it PENDING and
\* selects it again.
C35_Witness ==
  /\ LaterCallForFirstKey /\ Returned
  /\ Cardinality(SameKey(corrections, last)) = MaxPairCorrs
  /\ first.pre.status = STATUS_INVALID
  /\ last.pre.status = STATUS_PENDING
  /\ last.correction = first.correction


\* ========================================================================
\* ItemManager.get_or_create_with_score (models.py 31-51) on a store of up
\* to MaxStoredItems items; several items may carry one value.

MaxStoredItems == 3
\* Decimal('0.5'), the score of a new item created without one.
DefaultScore == 50
CreateValues == {"H1", "H2"}

GetOrCreateCall(value, score, pk, created) ==
  [op |-> "get_or_create_with_score", value |-> value, score |-> score, pk |-> pk,
   created |-> created, pre_items |-> items]

\* get_or_create_with_score(value, score) without further keyword arguments.
GetOrCreateWithScore(value, score) ==
  /\ last = Idle
  /\ LET normalized == IF score = NullScore THEN NullScore ELSE normalize_score(score)
         found == {i \in DOMAIN items : items[i].value = value}
     IN IF found # {}
        THEN \E i \in FirstByScore(found, items) :
               /\ items' = IF normalized # NullScore /\ items[i].score # normalized
                           THEN [items EXCEPT ![i] = ItemSaved(@, [@ EXCEPT !.score = normalized])]
                           ELSE items
               /\ last' = GetOrCreateCall(value, score, i, FALSE)
        ELSE /\ Len(items) < MaxStoredItems
             /\ LET new == [value |-> value,
                            score |-> IF normalized = NullScore \/ normalized = 0
                                      THEN DefaultScore ELSE normalized,
                            approved |-> FALSE, suggested_by_reviewer |-> TRUE]
                IN items' = Append(items, ItemSaved(new, new))
             /\ last' = GetOrCreateCall(value, score, Len(items) + 1, TRUE)
  /\ UNCHANGED <<corrections, first, calls, calc>>

InitCreate ==
  /\ \E n \in 0..(MaxStoredItems - 1) :
       \E value \in [1..n -> CreateValues], score \in [1..n -> ScoreSet \cup {NullScore}] :
         items = [i \in 1..n |->
                    [value |-> value[i], score |-> score[i], approved |-> FALSE,
                     suggested_by_reviewer |-> TRUE]]
  /\ corrections = << >>
  /\ last = Idle
  /\ first = NoFirst
  /\ calls = NoCalls
  /\ calc = NoCalc

NextCreate ==
  \/ \E value \in CreateValues, score \in SaveScores \cup {0} :
       GetOrCreateWithScore(value, score)
  \/ Done

SpecCreate == InitCreate /\ [][NextCreate]_vars

\* C39 as claimed: after get_or_create_with_score(value, score) with a score
\* that is not None the returned item has the score normalize_score(score),
\* whether it existed or was created.
C39_Original ==
  (last.op = "get_or_create_with_score" /\ last.score # NullScore) =>
    items[last.pk].score = normalize_score(last.score)


\* ========================================================================
\* The schedule views (views.py 291-369, 560-643): the module globals
\* last_uploaded_file_path and last_uploaded_file_is_xlsx and the temporary
\* files on disk.  Requests are handled one at a time.

MaxUploads == 3
\* last_uploaded_file_path = None
NoPath == 0
TempFiles == 1..MaxUploads
Extensions == {"xlsx", "xls", "other"}
\* Where a POST with an Excel file ends: a success page, or an exception from
\* NamedTemporaryFile, from writing the chunks, or from pd.read_excel.
UploadOutcomes == {"ok", "create_fails", "write_fails", "parse_fails"}
ExportOutcomes == {"ok", "raise"}

\* The state of the views: the two globals, the temporary files that exist,
\* the number of temporary files made so far, and the last request: its
\* view, its response, and the globals and files it found.
ViewState(path, is_xlsx, files, made, exported, op, response, pre) ==
  [stage |-> "views", path |-> path, is_xlsx |-> is_xlsx, files |-> files, made |-> made,
   exported |-> exported, op |-> op, response |-> response, pre |-> pre]

PreViews == [path |-> calc.path, files |-> calc.files, exported |-> calc.exported]

\* not last_uploaded_file_path or not os.path.exists(last_uploaded_file_path)
NotUploaded(path, files) == path = NoPath \/ path \notin files

\* The except branch of upload_schedule: the file last_uploaded_file_path
\* names at that moment is unlinked.
Unlinked(path, files) == IF path # NoPath THEN files \ {path} ELSE files

\* Mutant: the cleanup runs only when the export succeeded.
ExportCleanup_OnSuccess(path, files, outcome) ==
  IF outcome = "raise" THEN [path |-> path, files |-> files, is_xlsx |-> calc.is_xlsx]
  ELSE [path |-> NoPath, files |-> Unlinked(path, files), is_xlsx |-> TRUE]

\* The finally block of export_schedule_with_corrections (views.py 631-635).
ExportCleanup(path, files, outcome) ==
  [path |-> NoPath, files |-> Unlinked(path, files), is_xlsx |-> TRUE]

\* GET /upload/, or a POST without schedule_file: the form is rendered.
UploadForm ==
  /\ calc' = ViewState(calc.path, calc.is_xlsx, calc.files, calc.made, calc.exported,
                       "upload", "form", PreViews)
  /\ UNCHANGED <<items, corrections, last, first, calls>>

\* POST /upload/ with a file of extension ext.
UploadSchedule(ext, outcome) ==
  /\ calc.made < MaxUploads
  /\ LET f == calc.made + 1
         is_xlsx == ext = "xlsx"
     IN calc' =
          IF ext = "other"
          THEN ViewState(calc.path, calc.is_xlsx, calc.files, calc.made, calc.exported,
                         "upload", "bad_extension", PreViews)
          ELSE IF outcome = "create_fails"
          THEN ViewState(NoPath, is_xlsx, Unlinked(calc.path, calc.files), calc.made,
                         calc.exported, "upload", "error", PreViews)
          ELSE IF outcome = "write_fails"
          THEN ViewState(NoPath, is_xlsx, Unlinked(calc.path, calc.files) \cup {f}, f,
                         calc.exported, "upload", "error", PreViews)
          ELSE IF outcome = "parse_fails"
          THEN ViewState(NoPath, is_xlsx, calc.files, f,
                         calc.exported, "upload", "error", PreViews)
          ELSE ViewState(f, is_xlsx, calc.files \cup {f}, f, FALSE, "upload", "uploaded", PreViews)
  /\ UNCHANGED <<items, corrections, last, first, calls>>

\* GET /export/schedule/.
ExportSchedule(outcome) ==
  /\ calc' =
       IF NotUploaded(calc.path, calc.files)
       THEN ViewState(calc.path, calc.is_xlsx, calc.files, calc.made, calc.exported,
                      "export", "not_uploaded", PreViews)
       ELSE LET after == ExportCleanup(calc.path, calc.files, outcome)
            IN ViewState(after.path, after.is_xlsx, after.files, calc.made, TRUE,
                         "export", IF outcome = "raise" THEN "raise" ELSE "file", PreViews)
  /\ UNCHANGED <<items, corrections, last, first, calls>>

\* The operating system's cleaner removes a temporary file.
TempFileRemoved(f) ==
  /\ f \in calc.files
  /\ calc' = [calc EXCEPT !.files = @ \ {f}, !.op = "none", !.response = "none"]
  /\ UNCHANGED <<items, corrections, last, first, calls>>

InitViews ==
  /\ items = << >>
  /\ corrections = << >>
  /\ last = Idle
  /\ first = NoFirst
  /\ calls = NoCalls
  /\ calc = ViewState(NoPath, TRUE, {}, 0, FALSE, "none", "none",
                      [path |-> NoPath, files |-> {}, exported |-> FALSE])

NextViews ==
  \/ UploadForm
  \/ \E ext \in Extensions, outcome \in UploadOutcomes : UploadSchedule(ext, outcome)
  \/ \E outcome \in ExportOutcomes : ExportSchedule(outcome)
  \/ \E f \in TempFiles : TempFileRemoved(f)

SpecViews == InitViews /\ [][NextViews]_vars

\* The last request was an export that found an uploaded file.
ExportedWithFile ==
  /\ calc.op = "export"
  /\ ~NotUploaded(calc.pre.path, calc.pre.files)

\* C40: after an export that found an uploaded file, whether it answered
\* with the file or raised, last_uploaded_file_path is None and the temporary
\* file is gone; an export that comes after such an export with no successful
\* upload in between answers with the 'schedule not uploaded' page.
C40_ExportConsumesUpload ==
  /\ ExportedWithFile =>
       /\ calc.response \in {"file", "raise"}
       /\ calc.path = NoPath
       /\ calc.pre.path \notin calc.files
  /\ (calc.op = "export" /\ calc.pre.exported) => calc.response = "not_uploaded"

\* An export found an uploaded file; there was no successful upload since,
\* MaxUploads temporary files have been made and some were left on disk, and
\* the next export answered with the 'schedule not uploaded' page.
C40_Witness ==
  /\ calc.op = "export" /\ calc.pre.exported
  /\ calc.response = "not_uploaded"
  /\ calc.made = MaxUploads
  /\ calc.files # {}

====
